---- MODULE Spec2Model ----
(***************************************************************************)
(* Model of the chat orchestration of the personalization gateway:         *)
(* controllers/chatController.ts (chat, chatStream, clearHistory,          *)
(* getUserDetails), utils/conversationHistory.ts (the history trimmer),    *)
(* middleware/rateLimiting.ts (input validation), services/qdrant.ts and   *)
(* the document handlers (the per-user document store).                    *)
(*                                                                         *)
(* Texts are kept as run-length encoded strings: a sequence of runs        *)
(* [c, n] (character c repeated n times), adjacent runs having different   *)
(* characters.  The encoding is one-to-one with the strings over Char, so  *)
(* equality, length and concatenation are those of the strings, and the    *)
(* program's real size limits (10,000 / 32,000 characters) stay in reach.  *)
(***************************************************************************)
EXTENDS Integers, Sequences, FiniteSets, TLC

(***************************************************************************)
(* Strings                                                                 *)
(***************************************************************************)
Char == {"a", "b", " ", "A", "B"}

EmptyStr == << >>

Run(c, n) == [c |-> c, n |-> n]

Rep(c, n) == IF n = 0 THEN EmptyStr ELSE << Run(c, n) >>

RECURSIVE StrLen(_)
StrLen(s) == IF s = << >> THEN 0 ELSE Head(s).n + StrLen(Tail(s))

\* a + b of two strings: the runs meeting at the seam merge when equal.
Concat(a, b) ==
  IF a = << >> THEN b
  ELSE IF b = << >> THEN a
  ELSE IF a[Len(a)].c = b[1].c
       THEN SubSeq(a, 1, Len(a) - 1)
              \o << Run(b[1].c, a[Len(a)].n + b[1].n) >>
              \o Tail(b)
       ELSE a \o b

\* String.prototype.trim: leading and trailing white space removed.
StrTrim(s) ==
  LET dropHead == IF s # << >> /\ Head(s).c = " " THEN Tail(s) ELSE s
  IN  IF dropHead # << >> /\ dropHead[Len(dropHead)].c = " "
      THEN SubSeq(dropHead, 1, Len(dropHead) - 1)
      ELSE dropHead

(***************************************************************************)
(* Conversation turns.  A timestamp is absent, a number (epoch             *)
(* milliseconds, what ConversationMessage declares) or an ISO-8601 string  *)
(* (what new Date().toISOString() yields); t is the instant it denotes.    *)
(***************************************************************************)
NoTimestamp == [kind |-> "none", t |-> 0]

NumTimestamp(t) == [kind |-> "num", t |-> t]

\* new Date(t).toISOString()
ToISOString(t) == [kind |-> "iso", t |-> t]

Turn(role, content, ts) == [role |-> role, content |-> content, timestamp |-> ts]

\* role.length
RoleLen(role) ==
  CASE role = "user" -> 4
    [] role = "assistant" -> 9
    [] role = "system" -> 6

\* JavaScript truthiness of msg.timestamp: undefined and 0 are falsy, a
\* non-empty string is truthy.
Truthy(ts) ==
  CASE ts.kind = "none" -> FALSE
    [] ts.kind = "num" -> ts.t # 0
    [] ts.kind = "iso" -> TRUE

\* msg.timestamp > cutoffTime.  A string operand is converted with ToNumber;
\* an ISO-8601 date string converts to NaN and every comparison with NaN is
\* false.
GreaterThanNumber(ts, cutoffTime) ==
  CASE ts.kind = "num" -> ts.t > cutoffTime
    [] ts.kind = "iso" -> FALSE
    [] ts.kind = "none" -> FALSE

(***************************************************************************)
(* utils/conversationHistory.ts                                            *)
(***************************************************************************)
MAX_HISTORY_TOKENS == 8000

CHARS_PER_TOKEN == 4

MAX_HISTORY_CHARS == MAX_HISTORY_TOKENS * CHARS_PER_TOKEN

DefaultMaxMessages == 20

DefaultHoursToKeep == 24

MsPerHour == 60 * 60 * 1000

MessageChars(m) == StrLen(m.content) + RoleLen(m.role)

\* The loop of trimConversationHistory from index i down, totalChars so far.
RECURSIVE TrimLoop(_, _, _)
TrimLoop(history, i, totalChars) ==
  IF i < 1 THEN << >>
  ELSE IF totalChars + MessageChars(history[i]) > MAX_HISTORY_CHARS THEN << >>
  ELSE Append(TrimLoop(history, i - 1, totalChars + MessageChars(history[i])),
              history[i])

trimConversationHistory(history) ==
  IF Len(history) = 0 THEN << >> ELSE TrimLoop(history, Len(history), 0)

trimByAge(history, hoursToKeep, dateNow) ==
  LET cutoffTime == dateNow - hoursToKeep * MsPerHour
      Keep(msg) == IF ~Truthy(msg.timestamp) THEN TRUE
                   ELSE GreaterThanNumber(msg.timestamp, cutoffTime)
  IN  SelectSeq(history, Keep)

\* Array.prototype.slice(-count): the last count elements for count > 0;
\* -0 is 0, so slice(-0) is slice(0), the whole array; for count < 0 the
\* argument is positive and the first -count elements are dropped.
SliceLast(s, count) ==
  IF count = 0 THEN s
  ELSE IF count > 0
       THEN (IF Len(s) <= count THEN s
             ELSE SubSeq(s, Len(s) - count + 1, Len(s)))
       ELSE SubSeq(s, (IF -count < Len(s) THEN -count ELSE Len(s)) + 1, Len(s))

\* trimToLastN dropping the oldest turn whenever the count is reached.
trimToLastNShifting(history, count) ==
  IF Len(history) < count \/ history = << >> THEN history ELSE Tail(history)

trimToLastN(history, count) ==
  IF Len(history) <= count THEN history ELSE SliceLast(history, count)

\* smartTrimConversationHistory with the age filter left out.
smartTrimWithoutAgeFilter(history, dateNow) ==
  trimConversationHistory(trimToLastN(history, DefaultMaxMessages))

\* smartTrimConversationHistory(history, maxMessages, hoursToKeep), Date.now()
\* being dateNow.
smartTrimConversationHistoryWith(history, maxMessages, hoursToKeep, dateNow) ==
  trimConversationHistory(
    trimToLastN(trimByAge(history, hoursToKeep, dateNow), maxMessages))

\* smartTrimConversationHistory(history): the call with the default arguments.
smartTrimConversationHistory(history, dateNow) ==
  smartTrimConversationHistoryWith(history, DefaultMaxMessages,
                                   DefaultHoursToKeep, dateNow)

RECURSIVE ContentChars(_)
ContentChars(history) ==
  IF history = << >> THEN 0
  ELSE StrLen(Head(history).content) + ContentChars(Tail(history))

\* totalChars > MAX_HISTORY_CHARS * 0.8, in integers
shouldCleanupHistory(history) ==
  ContentChars(history) * 10 > MAX_HISTORY_CHARS * 8

(***************************************************************************)
(* middleware/rateLimiting.ts: input validation.  A request body field is  *)
(* [type, str, items]: a string, an array of fields, a number, null or     *)
(* undefined.                                                              *)
(***************************************************************************)
MaxMessageChars == 10000

MaxContextItems == 10

MaxContextItemChars == 5000

Undefined == [type |-> "undefined", str |-> EmptyStr, items |-> << >>]

StrVal(s) == [type |-> "string", str |-> s, items |-> << >>]

Null == [type |-> "null", str |-> EmptyStr, items |-> << >>]

NumVal == [type |-> "number", str |-> EmptyStr, items |-> << >>]

\* an array of field values
ArrVal(vals) == [type |-> "array", str |-> EmptyStr, items |-> vals]

\* item.length: the characters of a string, the elements of an array;
\* undefined (never above a limit) for a number.
ItemLength(item) ==
  IF item.type = "string" THEN StrLen(item.str)
  ELSE IF item.type = "array" THEN Len(item.items)
  ELSE 0

\* The number of errors validateMessage returns.
validateMessage(message) ==
  IF message.type # "string" THEN 1
  ELSE (IF StrLen(StrTrim(message.str)) = 0 THEN 1 ELSE 0)
       + (IF StrLen(message.str) > MaxMessageChars THEN 1 ELSE 0)

\* validateContextArray: whether it throws, and the number of errors it
\* returns otherwise.  item.length is read of every item: of null or
\* undefined that is a TypeError, of a number it is undefined, and
\* undefined > 5000 is false.
validateContextArray(context) ==
  IF context.type # "array" THEN [threw |-> FALSE, errors |-> 1]
  ELSE IF \E i \in 1..Len(context.items) :
            context.items[i].type \in {"null", "undefined"}
  THEN [threw |-> TRUE, errors |-> 0]
  ELSE [threw |-> FALSE,
        errors |->
          (IF Len(context.items) > MaxContextItems THEN 1 ELSE 0)
          + Cardinality({i \in 1..Len(context.items) :
                           context.items[i].type # "string"})
          + Cardinality({i \in 1..Len(context.items) :
                           ItemLength(context.items[i])
                             > MaxContextItemChars})]

(***************************************************************************)
(* Bounds of the model and the inputs the requests draw from.              *)
(***************************************************************************)
MaxReq == 1

MaxChunks == 2

MaxTicks == 1

\* The request slots of the sequential and of the concurrent specification.
Req == 1..MaxReq

Pair == {1, 2}

UserId == "u1"

Hour == MsPerHour

\* Date.now() when the model starts, and the step of the clock.
StartTime == 48 * Hour

TickMs == 12 * Hour

MsgHello == Rep("a", 5)

Body(message, context) == [message |-> message, context |-> context]

\* The request bodies: one that passes validation, and one for every way of
\* failing it (message: blank, absent, too long; context: absent, too many
\* items, an item too long, an item that is a number, an item that is null).
Bodies ==
  { Body(StrVal(MsgHello), ArrVal(<< >>)),
    Body(StrVal(Rep(" ", 3)), ArrVal(<< >>)),
    Body(Undefined, ArrVal(<< >>)),
    Body(StrVal(Rep("a", MaxMessageChars + 1)), ArrVal(<< >>)),
    Body(StrVal(MsgHello), Undefined),
    Body(StrVal(MsgHello),
         ArrVal([i \in 1..(MaxContextItems + 1) |-> StrVal(Rep("b", 1))])),
    Body(StrVal(MsgHello),
         ArrVal(<< StrVal(Rep("b", MaxContextItemChars + 1)) >>)),
    Body(StrVal(MsgHello), ArrVal(<< NumVal >>)),
    Body(StrVal(MsgHello), ArrVal(<< Null >>)) }

\* What the LLM backend may return (whole response) or yield (one chunk).
Responses == { Rep("b", 8), Rep("a", 2) }

\* The k-th chunk the backend's stream yields: "a", "b", "a", ...
ChunkAt(k) == IF k % 2 = 1 THEN Rep("a", 1) ELSE Rep("b", 1)

Legacy(role, c, n) == Turn(role, Rep(c, n), NoTimestamp)

Stamped(role, c, n, t) == Turn(role, Rep(c, n), NumTimestamp(t))

\* Transcripts a user_details row may hold when the model starts: rows of
\* the declared type ConversationMessage (timestamp?: number).
SeedShort == << Legacy("user", "a", 5), Legacy("assistant", "b", 8) >>

SeedEleven == [i \in 1..11 |->
                 Legacy(IF i % 2 = 1 THEN "user" ELSE "assistant", "a", i)]

SeedBig == [i \in 1..4 |->
              Legacy(IF i % 2 = 1 THEN "user" ELSE "assistant", "b", 10000)]

SeedAged == << Stamped("user", "a", 3, StartTime - 30 * Hour),
               Stamped("assistant", "b", 4, StartTime - 20 * Hour),
               Stamped("user", "a", 7, StartTime - 1 * Hour) >>

SeedHistories == { << >>, SeedShort, SeedEleven, SeedBig, SeedAged }

(***************************************************************************)
(* services/qdrant.ts: the collection of points.  A point is its payload   *)
(* [text, user_id] under its id; the vectors are left to the embedding     *)
(* backend, so a search may rank the matching points in any order.         *)
(***************************************************************************)
Users == {"u1", "u2"}

\* `${user.id}_${Date.now()}`, the id storeDocument generates
GenId(user, dateNow) == user \o "_" \o ToString(dateNow)

\* `${user.id}_${Date.now()}_${index}`, the ids storeBatchDocuments generates
GenBatchId(user, dateNow, index) ==
  user \o "_" \o ToString(dateNow) \o "_" \o ToString(index)

\* The ids of the points: one given by the caller, and those generated at
\* the time of the document requests.
PointIds ==
  {"d1"} \cup { GenId(u, StartTime) : u \in Users }
         \cup { GenBatchId(u, StartTime, i) : u \in Users, i \in {0, 1} }

\* The order client.scroll lists the points in.
IdOrder ==
  << "d1", GenId("u1", StartTime), GenBatchId("u1", StartTime, 0),
     GenBatchId("u1", StartTime, 1), GenId("u2", StartTime),
     GenBatchId("u2", StartTime, 0), GenBatchId("u2", StartTime, 1) >>

NoPoint == [text |-> EmptyStr, user_id |-> "none"]

Point(text, user) == [text |-> text, user_id |-> user]

NoFilter == "any"

\* client.upsert of one point
Upsert(pts, id, payload) == [pts EXCEPT ![id] = payload]

\* The ids of the points a filter { must: [user_id = filter] } matches.
Matching(pts, filter) ==
  {id \in PointIds :
     pts[id] # NoPoint /\ (filter = NoFilter \/ pts[id].user_id = filter)}

\* A SearchResult: id, text and metadata (the payload, of which user_id).
Result(pts, id) == [id |-> id, text |-> pts[id].text, user_id |-> pts[id].user_id]

\* The rankings client.search may return: min(limit, matching) distinct
\* matching points in some order of score.
RECURSIVE Rankings(_, _)
Rankings(ids, n) ==
  IF n = 0 THEN { << >> }
  ELSE UNION { { << id >> \o s : s \in Rankings(ids \ {id}, n - 1) } : id \in ids }

\* QdrantService.search(query, limit, filter) when the store answers
search(pts, limit, filter) ==
  LET ids == Matching(pts, filter)
      n == IF Cardinality(ids) < limit THEN Cardinality(ids) ELSE limit
  IN  {[k \in 1..n |-> Result(pts, s[k])] : s \in Rankings(ids, n)}

\* searchByUser with the user filter left out.
searchByUserUnfiltered(pts, userId, limit) == search(pts, limit, NoFilter)

\* QdrantService.searchByUser(query, userId, limit)
searchByUser(pts, userId, limit) == search(pts, limit, userId)

\* QdrantService.getDocument(id): the result, or << >> for null
getDocument(pts, id) ==
  IF pts[id] = NoPoint THEN << >> ELSE << Result(pts, id) >>

\* QdrantService.listDocuments(userId, limit)
listDocuments(pts, userId, limit) ==
  LET matching == SelectSeq(IdOrder, LAMBDA id : id \in Matching(pts, userId))
  IN  [k \in 1..(IF Len(matching) < limit THEN Len(matching) ELSE limit) |->
         Result(pts, matching[k])]

\* QdrantService.countDocuments(userId): client.count with exact: true
countDocuments(pts, userId) == Cardinality(Matching(pts, userId))

\* QdrantService.deleteDocument(id)
deleteDocument(pts, id) == [pts EXCEPT ![id] = NoPoint]

\* QdrantService.deleteByUser(userId)
deleteByUser(pts, userId) ==
  [id \in PointIds |-> IF pts[id].user_id = userId THEN NoPoint ELSE pts[id]]

\* results.map((r) => r.text)
Texts(results) == [k \in 1..Len(results) |-> results[k].text]

RetrieveLimit == 3

SearchLimit == 5

\* The limits given in the request body; SearchLimit is the default the
\* handler takes when the body has none.
SearchLimits == {1, 2}

ListLimit == 20

\* The collection the chat specifications start from: a document of the
\* requester and a document of another user.
SeedPoints ==
  [id \in PointIds |->
     CASE id = "d1" -> Point(Rep("b", 3), "u1")
       [] id = GenId("u2", StartTime) -> Point(Rep("a", 2), "u2")
       [] OTHER -> NoPoint]

EmptyPoints == [id \in PointIds |-> NoPoint]

(***************************************************************************)
(* The embedding utilities: EmbeddingCache.  The Map is the sequence of    *)
(* its entries in insertion order.  The 32-bit hash of getKey is kept as   *)
(* two 16-bit halves [hi, lo].                                             *)
(***************************************************************************)
DefaultCacheMaxSize == 1000

DefaultTtlMs == 24 * 60 * 60 * 1000

\* text.charCodeAt(i)
CharCode(c) ==
  CASE c = "a" -> 97
    [] c = "b" -> 98
    [] c = " " -> 32
    [] c = "A" -> 65
    [] c = "B" -> 66

\* hash = (hash << 5) - hash + char; hash = hash & hash: 31 * hash + char in
\* two's complement on 32 bits.
HashStep(hash, char) ==
  LET lo == hash.lo * 31 + char
      hi == hash.hi * 31 + lo \div 65536
  IN  [hi |-> hi % 65536, lo |-> lo % 65536]

RECURSIVE HashRun(_, _, _)
HashRun(hash, char, n) ==
  IF n = 0 THEN hash ELSE HashRun(HashStep(hash, char), char, n - 1)

RECURSIVE HashText(_, _)
HashText(hash, text) ==
  IF text = << >> THEN hash
  ELSE HashText(HashRun(hash, CharCode(Head(text).c), Head(text).n), Tail(text))

\* Math.abs of the signed 32-bit value of the two halves
AbsHash(hash) ==
  IF hash.hi < 32768 THEN hash
  ELSE [hi |-> 65535 - hash.hi + (IF hash.lo = 0 THEN 1 ELSE 0),
        lo |-> (65536 - hash.lo) % 65536]

\* `emb_${Math.abs(hash)}_${text.length}`
getKey(text) ==
  [abs |-> AbsHash(HashText([hi |-> 0, lo |-> 0], text)), len |-> StrLen(text)]

CachedEmbedding(key, text, embedding, timestamp) ==
  [key |-> key, text |-> text, embedding |-> embedding, timestamp |-> timestamp]

\* The position of the key in the Map, 0 when it is not there.
\* entries and key are evaluated once, then compared position by position.
KeyIndex(entries, key) ==
  LET at(map, k) == IF \E i \in 1..Len(map) : map[i].key = k
                    THEN CHOOSE i \in 1..Len(map) : map[i].key = k
                    ELSE 0
  IN  CHOOSE n \in { at(map, k) : map \in {entries}, k \in {key} } : TRUE

RemoveAt(entries, i) ==
  SubSeq(entries, 1, i - 1) \o SubSeq(entries, i + 1, Len(entries))

\* What get returns: null, or the embedding.
NoEmbedding == [found |-> FALSE, embedding |-> << >>]

Found(embedding) == [found |-> TRUE, embedding |-> embedding]

\* EmbeddingCache.get expiring an entry already at now - timestamp = ttlMs.
cacheGetExpiringAtTtl(entries, ttlMs, text, dateNow) ==
  LET i == KeyIndex(entries, getKey(text))
  IN  IF i = 0 THEN [result |-> NoEmbedding, entries |-> entries]
      ELSE IF dateNow - entries[i].timestamp >= ttlMs
      THEN [result |-> NoEmbedding, entries |-> RemoveAt(entries, i)]
      ELSE [result |-> Found(entries[i].embedding), entries |-> entries]

\* EmbeddingCache.get(text): what it returns and the entries it leaves.
cacheGet(entries, ttlMs, text, dateNow) ==
  LET i == KeyIndex(entries, getKey(text))
  IN  IF i = 0 THEN [result |-> NoEmbedding, entries |-> entries]
      ELSE IF dateNow - entries[i].timestamp > ttlMs
      THEN [result |-> NoEmbedding, entries |-> RemoveAt(entries, i)]
      ELSE [result |-> Found(entries[i].embedding), entries |-> entries]

\* EmbeddingCache.set leaving the entry of a key that is in the Map as it is.
cacheSetKeepingStoredVector(entries, maxSize, text, embedding, dateNow) ==
  LET kept == IF Len(entries) >= maxSize /\ entries # << >>
              THEN Tail(entries) ELSE entries
      i == KeyIndex(kept, getKey(text))
      entry == CachedEmbedding(getKey(text), text, embedding, dateNow)
  IN  IF i = 0 THEN Append(kept, entry) ELSE kept

\* EmbeddingCache.set that never deletes a key.
cacheSetWithoutEviction(entries, maxSize, text, embedding, dateNow) ==
  LET i == KeyIndex(entries, getKey(text))
      entry == CachedEmbedding(getKey(text), text, embedding, dateNow)
  IN  IF i = 0 THEN Append(entries, entry) ELSE [entries EXCEPT ![i] = entry]

\* EmbeddingCache.set evicting the newest entry.
cacheSetEvictingNewest(entries, maxSize, text, embedding, dateNow) ==
  LET kept == IF Len(entries) >= maxSize /\ entries # << >>
              THEN SubSeq(entries, 1, Len(entries) - 1) ELSE entries
      i == KeyIndex(kept, getKey(text))
      entry == CachedEmbedding(getKey(text), text, embedding, dateNow)
  IN  IF i = 0 THEN Append(kept, entry) ELSE [kept EXCEPT ![i] = entry]

\* EmbeddingCache.set(text, embedding): at capacity the first key of the Map
\* is deleted; Map.set of a key that is there keeps its place.
cacheSet(entries, maxSize, text, embedding, dateNow) ==
  LET kept == IF Len(entries) >= maxSize /\ entries # << >>
              THEN Tail(entries) ELSE entries
      i == KeyIndex(kept, getKey(text))
      entry == CachedEmbedding(getKey(text), text, embedding, dateNow)
  IN  IF i = 0 THEN Append(kept, entry) ELSE [kept EXCEPT ![i] = entry]

\* new EmbeddingCache(maxSize)
NewCache(maxSize) ==
  [maxSize |-> maxSize, ttlMs |-> DefaultTtlMs, entries |-> << >>]

\* Math.sqrt of a square
Sqrt(n) == CHOOSE k \in 0..n : k * k = n

RECURSIVE SumSquares(_)
SumSquares(v) == IF v = << >> THEN 0 ELSE Head(v) * Head(v) + SumSquares(Tail(v))

\* normalizeEmbedding, for vectors along one axis (whose unit vector has
\* integer components)
normalizeEmbedding(embedding) ==
  LET magnitude == Sqrt(SumSquares(embedding))
  IN  IF magnitude = 0 THEN embedding
      ELSE [i \in 1..Len(embedding) |-> embedding[i] \div magnitude]

(***************************************************************************)
(* State                                                                   *)
(***************************************************************************)
VARIABLES
  user_details,   \* the user_details table: a sequence of rows
  req,            \* the requests: inputs, position and locals of each handler
  now,            \* Date.now()
  ticks,          \* how often the clock has advanced
  env,            \* process.env: which API keys are set, EMBEDDING_PROVIDER
  lastWriter,     \* the request whose transcript write came last (0: none)
  points,         \* the Qdrant collection: the payload under each point id
  docRes,         \* the last document request: who asked, and its response
  docReq,         \* the listDocuments request in flight, between its awaits
  docCount,       \* how many document requests have arrived
  trimCall,       \* a call of smartTrimConversationHistory and its result
  cache,          \* an EmbeddingCache: maxSize, ttlMs and the Map's entries
  cacheRes,       \* the last call of the cache: arguments, result, Map before
  embed,          \* the generateEmbedding requests
  users,          \* the users table: whether each user exists and is approved
  auth            \* the tokens issued, the logins and the authenticated requests

vars == << user_details, req, now, ticks, env, lastWriter,
           points, docRes, docReq, docCount, trimCall, cache, cacheRes, embed,
           users, auth >>

cacheVars == << cache, cacheRes, embed >>

authVars == << users, auth >>

\* The users the requests are about and the request slots of the auth part.
AuthUsers == {"u1", "u2"}

RegisterSlots == {1, 2}

LoginSlots == {1}

AuthSlots == {1, 2}

MaxApprovalChanges == 2

\* A row of the users table as the handlers use it; changes counts the
\* approval updates applied to it.
NoUser == [exists |-> FALSE, approved |-> FALSE, changes |-> 0]

NoUsers == [u \in AuthUsers |-> NoUser]

\* The Authorization header of a request: absent, a token whose signature
\* does not verify, or the token login issued to a user.
NoBearer == [kind |-> "missing", sub |-> "none"]

Bearers ==
  {NoBearer, [kind |-> "forged", sub |-> "u1"]}
    \cup { [kind |-> "issued", sub |-> u] : u \in AuthUsers }

\* A login: its place in the handler, its body, the user record it read and
\* its response; approvedAtIssue is the approved column of the user at the
\* moment the token was signed.
IdleLogin ==
  [ pc |-> "idle", email |-> "none", passwordOk |-> FALSE, user |-> NoUser,
    status |-> 0, token |-> FALSE, approvedAtIssue |-> FALSE ]

\* A request to GET /settings in authenticateUser: its place, its bearer,
\* the status the middleware answered with, whether next() was called; and
\* for the properties the user's row when the request arrived and when
\* next() was called.
IdleAuthReq ==
  [ pc |-> "idle", bearer |-> NoBearer, verified |-> FALSE, status |-> 0,
    ranHandler |-> FALSE, atStart |-> NoUser, atNext |-> NoUser ]

\* A register: its place in the handler, its email and its response.
IdleRegister == [pc |-> "idle", email |-> "none", status |-> 0]

\* tokens[u]: whether login has issued a token to u and whether it has expired.
NoAuth ==
  [ tokens |-> [u \in AuthUsers |-> "none"],
    registers |-> [g \in RegisterSlots |-> IdleRegister],
    logins |-> [l \in LoginSlots |-> IdleLogin],
    requests |-> [r \in AuthSlots |-> IdleAuthReq] ]

EmbedSlots == {1, 2}

NoCacheRes ==
  [ op |-> "none", text |-> EmptyStr, embedding |-> << >>,
    result |-> NoEmbedding, before |-> << >>, at |-> 0,
    prev |-> [ op |-> "none", text |-> EmptyStr, embedding |-> << >>,
               at |-> 0 ] ]

\* A generateEmbedding request: its place in the handler, the texts it embeds
\* (one for body.text, several for body.texts), those still to embed, the
\* embeddings it has, its response; and for the properties the number of
\* calls of EmbeddingService.embed, the times of its last cache lookup and
\* set, and the requests that were answered when it arrived.
IdleEmbed ==
  [ pc |-> "idle", single |-> TRUE, input |-> << >>, use_cache |-> TRUE,
    todo |-> << >>, embeddings |-> << >>, status |-> 0,
    calls |-> 0, lookupAt |-> 0, setAt |-> 0, after |-> {} ]

chatVars == << user_details, req, now, ticks, env, lastWriter >>

NoDocRes ==
  [ op |-> "none", user |-> "none", up |-> TRUE, status |-> 0,
    results |-> << >>, total |-> 0, affected |-> {} ]

\* The listDocuments requests that can be in flight together.
ListSlots == {1, 2}

\* A slot without a listDocuments request in flight.
IdleList ==
  [ pc |-> "idle", user |-> "none", up |-> TRUE, documents |-> << >> ]

NoDocReq == [l \in ListSlots |-> IdleList]

docVars == << docRes, docReq, docCount >>

NoTrimCall ==
  [ applied |-> FALSE, history |-> << >>, maxMessages |-> DefaultMaxMessages,
    dateNow |-> StartTime, byAge |-> << >>, lastN |-> << >>,
    out |-> << >>, again |-> << >> ]

\* process.env as the services read it: whether GEMINI_API_KEY and
\* OPENAI_API_KEY are set, and EMBEDDING_PROVIDER ("undefined" when unset).
Env(gemini, openai, provider) ==
  [ GEMINI_API_KEY |-> gemini, OPENAI_API_KEY |-> openai,
    EMBEDDING_PROVIDER |-> provider ]

Envs ==
  { Env(gemini, openai, provider) :
      gemini \in BOOLEAN, openai \in BOOLEAN,
      provider \in {"undefined", "fastapi"} }

AllKeys == Env(TRUE, TRUE, "undefined")

\* this.config.apiKey is truthy: the config has a non-empty apiKey.
HasApiKey(config) == "apiKey" \in DOMAIN config /\ config["apiKey"] # ""

\* LLMService.initializeClient: gemini needs config.apiKey or GEMINI_API_KEY,
\* gpt needs config.apiKey or OPENAI_API_KEY, ollama needs no key; it throws
\* when the key is missing.
LlmClientThrows(config) ==
  \/ config["provider"] = "gemini" /\ ~HasApiKey(config) /\ ~env.GEMINI_API_KEY
  \/ config["provider"] = "gpt" /\ ~HasApiKey(config) /\ ~env.OPENAI_API_KEY

\* EmbeddingService.initializeClient: only gemini needs a key.
EmbeddingClientThrows(config) ==
  config["provider"] = "gemini" /\ ~HasApiKey(config) /\ ~env.GEMINI_API_KEY

\* An object of string keys, as the list of its entries.
EmptyObject == << >>

Entry(key, value) == [key |-> key, value |-> value]

\* The keys of a list of entries.
Keys(object) == { object[i].key : i \in 1..Len(object) }

\* object[key] of a key the object has.
Get(object, key) ==
  object[CHOOSE i \in 1..Len(object) : object[i].key = key].value

\* { provider: userDetail.get("llm_model"), ...llm_config }: a key of
\* llm_config replaces the one before the spread.
llmConfig(row) ==
  [k \in DOMAIN row.llm_config \cup {"provider"} |->
     IF k \in DOMAIN row.llm_config THEN row.llm_config[k]
     ELSE row.llm_model]

\* { provider: userDetail.get("embedding_provider"), ...embedding_config }
embeddingConfig(row) ==
  [k \in Keys(row.embedding_config) \cup {"provider"} |->
     IF k \in Keys(row.embedding_config) THEN Get(row.embedding_config, k)
     ELSE row.embedding_provider]

\* The llm_config getUserDetails creates a profile with.
DefaultLlmConfig ==
  [model |-> "gemini-2.5-flash", temperature |-> "0.7", maxTokens |-> 2048]

\* A row of user_details as UserDetail.create({ user_id, ... }) makes it, with
\* the given conversation_history.
Row(user, history) ==
  [ user_id |-> user,
    llm_model |-> "gemini",
    llm_config |-> DefaultLlmConfig,
    embedding_provider |-> IF env.EMBEDDING_PROVIDER = "undefined"
                          THEN "gemini" ELSE env.EMBEDDING_PROVIDER,
    embedding_config |-> EmptyObject,
    preferences |-> EmptyObject,
    personal_info |-> EmptyObject,
    conversation_history |-> history ]

\* A field of the body of updateSettings: given with a value, or undefined.
Given(value) == [present |-> TRUE, value |-> value]

NotGiven(value) == [present |-> FALSE, value |-> value]

SettingsBody(llm_model, llm_config, embedding_provider, embedding_config, preferences, personal_info) ==
  [ llm_model |-> llm_model, llm_config |-> llm_config,
    embedding_provider |-> embedding_provider,
    embedding_config |-> embedding_config,
    preferences |-> preferences, personal_info |-> personal_info ]

\* The body {}.
NoSettings ==
  SettingsBody(NotGiven("gemini"), NotGiven(DefaultLlmConfig),
               NotGiven("gemini"), NotGiven(EmptyObject),
               NotGiven(EmptyObject), NotGiven(EmptyObject))

\* The bodies of updateSettings: one field, another field, an llm_config
\* that names its own provider, with and without its own key, all fields.
SettingsBodies ==
  { [NoSettings EXCEPT !.llm_model = Given("gpt")],
    [NoSettings EXCEPT !.llm_config =
       Given([model |-> "llama3", temperature |-> "0.7", maxTokens |-> 2048,
              provider |-> "ollama"])],
    [NoSettings EXCEPT !.llm_config =
       Given([model |-> "gpt-4o", temperature |-> "0.7", maxTokens |-> 2048,
              provider |-> "gpt", apiKey |-> "sk"])],
    [NoSettings EXCEPT !.llm_config =
       Given([model |-> "gpt-4o", temperature |-> "0.7", maxTokens |-> 2048,
              provider |-> "gpt"])],
    [NoSettings EXCEPT !.preferences = Given(<< Entry("tone", "formal") >>)],
    SettingsBody(Given("ollama"),
                 Given([model |-> "llama3", temperature |-> "0.2",
                        maxTokens |-> 512]),
                 Given("fastapi"),
                 Given(<< Entry("fastapiUrl", "http://embed") >>),
                 Given(<< Entry("language", "id") >>),
                 Given(<< Entry("name", "Aidil") >>)) }

\* UserDetail.update(updates, { where: { user_id } }) with updates holding the
\* fields of the body that are not undefined.
UpdateFields(table, user, body) ==
  [i \in 1..Len(table) |->
     IF table[i].user_id = user
     THEN [table[i] EXCEPT
             !.llm_model = IF body.llm_model.present
                           THEN body.llm_model.value ELSE @,
             !.llm_config = IF body.llm_config.present
                            THEN body.llm_config.value ELSE @,
             !.embedding_provider = IF body.embedding_provider.present
                                    THEN body.embedding_provider.value ELSE @,
             !.embedding_config = IF body.embedding_config.present
                                  THEN body.embedding_config.value ELSE @,
             !.preferences = IF body.preferences.present
                             THEN body.preferences.value ELSE @,
             !.personal_info = IF body.personal_info.present
                               THEN body.personal_info.value ELSE @]
     ELSE table[i]]

\* buildSystemPrompt(userDetail), kept as its parts: the opening sentence, the
\* "User Information:" lines and the "User Preferences:" lines, each list
\* there when the object has keys.
buildSystemPrompt(row) ==
  [ opening |-> "You are a helpful AI assistant personalized for this user.\n\n",
    information |-> row.personal_info,
    preferences |-> row.preferences ]

IdleReq ==
  [ kind |-> "none", pc |-> "idle", user |-> UserId,
    message |-> Undefined, context |-> Undefined, auto_retrieve |-> FALSE,
    systemPrompt |-> buildSystemPrompt(Row(UserId, << >>)),
    history |-> << >>, recentHistory |-> << >>, cleared |-> << >>,
    results |-> << >>, retrievedDocs |-> << >>, retrieveFailed |-> FALSE,
    queryEmbeds |-> 0, settings |-> NoSettings,
    fullResponse |-> EmptyStr, updatedHistory |-> << >>, commitTime |-> 0,
    failure |-> "none", status |-> 0, body |-> "none",
    sent |-> << >>, ended |-> FALSE, headersSent |-> FALSE, lateWrites |-> 0,
    connected |-> TRUE, nChunks |-> 0, nWrites |-> 0, written |-> << >> ]

InitWith(slots, envs) ==
  /\ env \in envs
  /\ user_details \in {<< >>} \cup { << Row(UserId, h) >> : h \in SeedHistories }
  /\ req = [r \in slots |-> IdleReq]
  /\ now = StartTime
  /\ ticks = 0
  /\ lastWriter = 0
  /\ users = NoUsers
  /\ auth = NoAuth
  /\ points = SeedPoints
  /\ docRes = NoDocRes
  /\ docReq = NoDocReq
  /\ docCount = 0
  /\ trimCall = NoTrimCall
  /\ cache = NewCache(DefaultCacheMaxSize)
  /\ cacheRes = NoCacheRes
  /\ embed = [e \in EmbedSlots |-> IdleEmbed]

\* The environments of the chat runs: one in which the default provider has
\* its key, one in which it has not and EMBEDDING_PROVIDER is set.
ChatEnvs == { Env(TRUE, FALSE, "undefined"), Env(FALSE, TRUE, "fastapi") }

Init == InitWith(Req, ChatEnvs)

InitConcurrent == InitWith(Pair, ChatEnvs)

InitSettings == InitWith(Pair, Envs)

(***************************************************************************)
(* The user_details table (Sequelize): findOne, create, update             *)
(***************************************************************************)
HasRow(table, user) == \E i \in 1..Len(table) : table[i].user_id = user

\* UserDetail.findOne({ where: { user_id } }): the first matching row
FindOne(table, user) ==
  table[CHOOSE i \in 1..Len(table) :
          /\ table[i].user_id = user
          /\ \A j \in 1..(i - 1) : table[j].user_id # user]

\* UserDetail.update({ conversation_history }, { where: { user_id } })
UpdateHistory(table, user, history) ==
  [i \in 1..Len(table) |->
     IF table[i].user_id = user
     THEN [table[i] EXCEPT !.conversation_history = history]
     ELSE table[i]]

\* The transcript stored for a user (empty when there is no profile yet).
Stored(user) ==
  IF HasRow(user_details, user)
  THEN FindOne(user_details, user).conversation_history
  ELSE << >>

(***************************************************************************)
(* The response object of a request                                        *)
(***************************************************************************)
Event(type, text) == [type |-> type, text |-> text]

\* res.status(status).json(body)
Respond(q, status, body) ==
  [q EXCEPT !.status = status, !.body = body, !.ended = TRUE,
            !.headersSent = TRUE]

\* res.write(event): on a response that has ended the event is not sent; on
\* a live socket the first write sends the headers, on a destroyed one it
\* does not.
ResWrite(q, ev) ==
  IF q.ended
  THEN [q EXCEPT !.lateWrites = @ + 1]
  ELSE [q EXCEPT !.sent = Append(@, ev),
                 !.headersSent = @ \/ q.connected]

\* res.end()
ResEnd(q) == [q EXCEPT !.ended = TRUE, !.headersSent = TRUE]

Fail(q, reason) == [q EXCEPT !.pc = "failed", !.failure = reason]

(***************************************************************************)
(* chat / chatStream: controllers/chatController.ts                        *)
(***************************************************************************)
RecentWindow == 10

\* res.headersSent: the headers go out with the first write on a live
\* socket or with end.
HeadersSent(q) == q.headersSent

\* The handler's catch (error) block: chat always answers 500; chatStream
\* answers 500 before the headers are sent and writes an error event after.
OuterCatch(q, reason) ==
  IF q.kind = "stream" /\ HeadersSent(q)
  THEN Fail(ResEnd(ResWrite(q, Event("error", EmptyStr))), reason)
  ELSE Fail(Respond(q, 500, "error"), reason)

\* The handler from the loaded profile row to its next await: the LLM client
\* is built, the history is conditioned and cut to the recent window.
AfterLoad(q, row, dateNow) ==
  IF LlmClientThrows(llmConfig(row))
  THEN OuterCatch(q, "ConfigError")
  ELSE
    LET loaded == row.conversation_history
        history == IF shouldCleanupHistory(loaded)
                   THEN smartTrimConversationHistory(loaded, dateNow)
                   ELSE loaded
    IN  [q EXCEPT !.systemPrompt = buildSystemPrompt(row),
                  !.history = loaded,
                  !.recentHistory = SliceLast(history, RecentWindow),
                  !.pc = IF q.auto_retrieve THEN "retrieving"
                         ELSE IF q.kind = "stream" THEN "streaming"
                         ELSE "generating"]

\* allContext = [...(context || []), ...retrievedDocs]
AllContext(q) ==
  (IF q.context.type = "array"
   THEN [i \in 1..Len(q.context.items) |-> q.context.items[i].str]
   ELSE << >>) \o q.retrievedDocs

\* `Relevant context:\n${allContext.join("\n\n")}`, kept as its parts
ContextText(allContext) ==
  [prefix |-> "Relevant context:\n", parts |-> allContext,
   separator |-> "\n\n"]

\* The messages handed to llmService.chat or llmService.chatStream.
messages(q) ==
  << Turn("system", q.systemPrompt, NoTimestamp) >>
  \o q.recentHistory
  \o (IF Len(AllContext(q)) > 0
      THEN << Turn("system", ContextText(AllContext(q)), NoTimestamp) >>
      ELSE << >>)
  \o << Turn("user", q.message.str, NoTimestamp) >>

\* The two turns appended at commit.
NewTurns(message, response, dateNow) ==
  << Turn("user", message, ToISOString(dateNow)),
     Turn("assistant", response, ToISOString(dateNow)) >>

\* updatedHistory built from the prompt's system turn and the recent turns
UpdatedHistoryWithSystemTurn(recentHistory, message, response, dateNow) ==
  smartTrimConversationHistory(
    << Turn("system", Rep("a", 1), NoTimestamp) >>
      \o recentHistory \o NewTurns(message, response, dateNow), dateNow)

\* updatedHistory as handed to UserDetail.update
UpdatedHistory(recentHistory, message, response, dateNow) ==
  smartTrimConversationHistory(
    recentHistory \o NewTurns(message, response, dateNow), dateNow)

\* A request arrives: the inputs are validated.
Start(r, kind, message, context, auto) ==
  /\ req[r].pc = "idle"
  /\ \A j \in 1..(r - 1) : req[j].pc # "idle"
  /\ LET q == [req[r] EXCEPT !.kind = kind, !.message = message,
                             !.context = context, !.auto_retrieve = auto]
     IN  req' = [req EXCEPT ![r] =
                   IF validateMessage(message) > 0
                   THEN Fail(Respond(q, 400, "validation"), "ValidationError")
                   ELSE IF validateContextArray(context).threw
                   THEN OuterCatch(q, "TypeError")
                   ELSE IF validateContextArray(context).errors > 0
                   THEN Fail(Respond(q, 400, "validation"), "ValidationError")
                   ELSE [q EXCEPT !.pc = "findOne"]]
  /\ UNCHANGED << user_details, now, ticks, env, lastWriter >>
  /\ UNCHANGED << points, docVars, trimCall, authVars, cacheVars >>

\* getUserDetails: findOne answers.
LoadProfile(r) ==
  /\ req[r].pc = "findOne"
  /\ req' = [req EXCEPT ![r] =
               IF HasRow(user_details, req[r].user)
               THEN AfterLoad(req[r], FindOne(user_details, req[r].user), now)
               ELSE [req[r] EXCEPT !.pc = "create"]]
  /\ UNCHANGED << user_details, now, ticks, env, lastWriter >>
  /\ UNCHANGED << points, docVars, trimCall, authVars, cacheVars >>

\* CreateProfile on a table without the unique index on user_id.
CreateProfileWithoutUniqueIndex(r) ==
  /\ req[r].pc = "create"
  /\ user_details' = Append(user_details, Row(req[r].user, << >>))
  /\ req' = [req EXCEPT ![r] = AfterLoad(req[r], Row(req[r].user, << >>), now)]
  /\ UNCHANGED << now, ticks, env, lastWriter >>
  /\ UNCHANGED << points, docVars, trimCall, authVars, cacheVars >>

\* getUserDetails: no row was found, UserDetail.create answers.  The unique
\* index idx_user_details_user_id_unique rejects the insert when another
\* request has created the user's row in between.
CreateProfile(r) ==
  /\ req[r].pc = "create"
  /\ IF HasRow(user_details, req[r].user)
     THEN /\ req' = [req EXCEPT ![r] = OuterCatch(req[r], "UniqueViolation")]
          /\ user_details' = user_details
     ELSE /\ user_details' = Append(user_details, Row(req[r].user, << >>))
          /\ req' = [req EXCEPT ![r] =
                       AfterLoad(req[r], Row(req[r].user, << >>), now)]
  /\ UNCHANGED << now, ticks, env, lastWriter >>
  /\ UNCHANGED << points, docVars, trimCall, authVars, cacheVars >>

\* A database call of getUserDetails rejects.
LoadFails(r) ==
  /\ req[r].pc \in {"findOne", "create"}
  /\ req' = [req EXCEPT ![r] = OuterCatch(req[r], "ProfileError")]
  /\ UNCHANGED << user_details, now, ticks, env, lastWriter >>
  /\ UNCHANGED << points, docVars, trimCall, authVars, cacheVars >>

\* The handler from the end of retrieval to the LLM call.
AfterRetrieve(q, docs) ==
  [q EXCEPT !.retrievedDocs = docs,
            !.pc = IF q.kind = "stream" THEN "streaming" ELSE "generating"]

\* RetrieveFails letting the error reach the handler's catch.
RetrieveFailsAborting(r, embedded) ==
  /\ req[r].pc = "retrieving"
  /\ req' = [req EXCEPT ![r] =
               OuterCatch([req[r] EXCEPT !.retrieveFailed = TRUE,
                                         !.queryEmbeds =
                                            IF embedded THEN @ + 1 ELSE @],
                          "RetrievalUnavailable")]
  /\ UNCHANGED << user_details, now, ticks, env, lastWriter >>
  /\ UNCHANGED << points, docVars, trimCall, authVars, cacheVars >>

\* The retrieval throws and the handler's inner catch goes on without
\* documents: getQdrantService or ensureCollection fails before the query
\* is embedded, or embed was called and it or the search rejects.
RetrieveFails(r, embedded) ==
  /\ req[r].pc = "retrieving"
  /\ req' = [req EXCEPT ![r] =
               AfterRetrieve([req[r] EXCEPT !.retrieveFailed = TRUE,
                                            !.queryEmbeds =
                                               IF embedded THEN @ + 1 ELSE @],
                             << >>)]
  /\ UNCHANGED << user_details, now, ticks, env, lastWriter >>
  /\ UNCHANGED << points, docVars, trimCall, authVars, cacheVars >>

\* qdrant.searchByUser(message, user.id, retrieve_limit) answers: search has
\* called embeddingService.embed(query) once (queryEmbeds counts the calls)
\* and the store's search; the EmbeddingCache is not involved.
Retrieve(r) ==
  /\ req[r].pc = "retrieving"
  /\ \E results \in searchByUser(points, req[r].user, RetrieveLimit) :
       req' = [req EXCEPT ![r] =
                 AfterRetrieve([req[r] EXCEPT !.results = results,
                                              !.queryEmbeds = @ + 1],
                               Texts(results))]
  /\ UNCHANGED << user_details, now, ticks, env, lastWriter >>
  /\ UNCHANGED << points, docVars, trimCall, authVars, cacheVars >>

\* chat: llmService.chat answers; the updated history is built and trimmed
\* and UserDetail.update is issued.
Generate(r, response) ==
  /\ req[r].kind = "chat" /\ req[r].pc = "generating"
  /\ req' = [req EXCEPT ![r] =
               [req[r] EXCEPT !.fullResponse = response,
                              !.updatedHistory =
                                 UpdatedHistory(req[r].recentHistory,
                                                req[r].message.str, response, now),
                              !.commitTime = now,
                              !.pc = "committing"]]
  /\ UNCHANGED << user_details, now, ticks, env, lastWriter >>
  /\ UNCHANGED << points, docVars, trimCall, authVars, cacheVars >>

\* chat: llmService.chat throws.
GenerateFails(r) ==
  /\ req[r].kind = "chat" /\ req[r].pc = "generating"
  /\ req' = [req EXCEPT ![r] = OuterCatch(req[r], "GenerationError")]
  /\ UNCHANGED << user_details, now, ticks, env, lastWriter >>
  /\ UNCHANGED << points, docVars, trimCall, authVars, cacheVars >>

\* StreamChunk saving the partial transcript with every chunk.
StreamChunkSavingEachChunk(r) ==
  /\ req[r].kind = "stream" /\ req[r].pc = "streaming"
  /\ req[r].nChunks < MaxChunks
  /\ LET chunk == ChunkAt(req[r].nChunks + 1)
         full == Concat(req[r].fullResponse, chunk)
         saved == UpdatedHistory(req[r].recentHistory, req[r].message.str,
                                 full, now)
     IN  /\ req' = [req EXCEPT ![r] =
                     [ResWrite(req[r], Event("chunk", chunk))
                        EXCEPT !.fullResponse = full,
                               !.nChunks = @ + 1,
                               !.nWrites = @ + 1,
                               !.written = saved]]
         /\ user_details' = UpdateHistory(user_details, req[r].user, saved)
  /\ lastWriter' = r
  /\ UNCHANGED << now, ticks, env >>
  /\ UNCHANGED << points, docVars, trimCall, authVars, cacheVars >>

\* chatStream: the backend yields one chunk.  With STREAM_DEBUG_MODE=true the
\* handler forwards the words of a fixed text instead (chatController.ts
\* 174-194): the same loop with a backend that never throws, so it is covered
\* by the runs of this action that are not followed by StreamFails.
StreamChunk(r) ==
  /\ req[r].kind = "stream" /\ req[r].pc = "streaming"
  /\ req[r].nChunks < MaxChunks
  /\ LET chunk == ChunkAt(req[r].nChunks + 1)
     IN  req' = [req EXCEPT ![r] =
                   [ResWrite(req[r], Event("chunk", chunk))
                      EXCEPT !.fullResponse = Concat(@, chunk),
                             !.nChunks = @ + 1]]
  /\ UNCHANGED << user_details, now, ticks, env, lastWriter >>
  /\ UNCHANGED << points, docVars, trimCall, authVars, cacheVars >>

\* chatStream: the backend's stream is exhausted: done is sent, the response
\* is ended, the updated history is built and UserDetail.update is issued.
StreamEnd(r) ==
  /\ req[r].kind = "stream" /\ req[r].pc = "streaming"
  /\ req' = [req EXCEPT ![r] =
               [ResEnd(ResWrite(req[r], Event("done", EmptyStr)))
                  EXCEPT !.updatedHistory =
                            UpdatedHistory(req[r].recentHistory,
                                           req[r].message.str,
                                           req[r].fullResponse, now),
                         !.commitTime = now,
                         !.pc = "committing"]]
  /\ UNCHANGED << user_details, now, ticks, env, lastWriter >>
  /\ UNCHANGED << points, docVars, trimCall, authVars, cacheVars >>

\* StreamFails saving what was generated so far.
StreamFailsSavingPartial(r) ==
  /\ req[r].kind = "stream" /\ req[r].pc = "streaming"
  /\ LET saved == UpdatedHistory(req[r].recentHistory, req[r].message.str,
                                 req[r].fullResponse, now)
     IN  /\ req' = [req EXCEPT ![r] =
                     [Fail(ResEnd(ResWrite(req[r], Event("error", EmptyStr))),
                           "GenerationError")
                        EXCEPT !.nWrites = @ + 1, !.written = saved]]
         /\ user_details' = UpdateHistory(user_details, req[r].user, saved)
  /\ lastWriter' = r
  /\ UNCHANGED << now, ticks, env >>
  /\ UNCHANGED << points, docVars, trimCall, authVars, cacheVars >>

\* StreamFails ending the response without an error event.
StreamFailsSilently(r) ==
  /\ req[r].kind = "stream" /\ req[r].pc = "streaming"
  /\ req' = [req EXCEPT ![r] = Fail(ResEnd(req[r]), "GenerationError")]
  /\ UNCHANGED << user_details, now, ticks, env, lastWriter >>
  /\ UNCHANGED << points, docVars, trimCall, authVars, cacheVars >>

\* StreamFails answering with a status-coded error response.
StreamFailsWithStatus(r) ==
  /\ req[r].kind = "stream" /\ req[r].pc = "streaming"
  /\ req' = [req EXCEPT ![r] =
               Fail(Respond(req[r], 500, "error"), "GenerationError")]
  /\ UNCHANGED << user_details, now, ticks, env, lastWriter >>
  /\ UNCHANGED << points, docVars, trimCall, authVars, cacheVars >>

\* chatStream: the backend throws; the inner catch sends the error event.
StreamFails(r) ==
  /\ req[r].kind = "stream" /\ req[r].pc = "streaming"
  /\ req' = [req EXCEPT ![r] =
               Fail(ResEnd(ResWrite(req[r], Event("error", EmptyStr))),
                    "GenerationError")]
  /\ UNCHANGED << user_details, now, ticks, env, lastWriter >>
  /\ UNCHANGED << points, docVars, trimCall, authVars, cacheVars >>

\* The caller of a chatStream goes away while the stream is open.
Disconnect(r) ==
  /\ req[r].kind = "stream" /\ req[r].pc = "streaming"
  /\ req[r].connected
  /\ req' = [req EXCEPT ![r].connected = FALSE]
  /\ UNCHANGED << user_details, now, ticks, env, lastWriter >>
  /\ UNCHANGED << points, docVars, trimCall, authVars, cacheVars >>

\* UserDetail.update of the commit succeeds.
Commit(r) ==
  /\ req[r].kind \in {"chat", "stream"} /\ req[r].pc = "committing"
  /\ user_details' = UpdateHistory(user_details, req[r].user,
                                   req[r].updatedHistory)
  /\ LET q == [req[r] EXCEPT !.nWrites = @ + 1,
                             !.written = req[r].updatedHistory,
                             !.pc = "done"]
     IN  req' = [req EXCEPT ![r] =
                   IF q.kind = "chat" THEN Respond(q, 200, "result") ELSE q]
  /\ lastWriter' = r
  /\ UNCHANGED << now, ticks, env >>
  /\ UNCHANGED << points, docVars, trimCall, authVars, cacheVars >>

\* UserDetail.update of the commit rejects: chat answers 500 from its catch,
\* chatStream's inner catch writes an error event and ends the response.
CommitFails(r) ==
  /\ req[r].kind \in {"chat", "stream"} /\ req[r].pc = "committing"
  /\ req' = [req EXCEPT ![r] =
               IF req[r].kind = "chat"
               THEN OuterCatch(req[r], "PersistenceError")
               ELSE Fail(ResEnd(ResWrite(req[r], Event("error", EmptyStr))),
                         "PersistenceError")]
  /\ UNCHANGED << user_details, now, ticks, env, lastWriter >>
  /\ UNCHANGED << points, docVars, trimCall, authVars, cacheVars >>

(***************************************************************************)
(* clearHistory                                                            *)
(***************************************************************************)
StartClear(r) ==
  /\ req[r].pc = "idle"
  /\ \A j \in 1..(r - 1) : req[j].pc # "idle"
  /\ req' = [req EXCEPT ![r] = [req[r] EXCEPT !.kind = "clear", !.pc = "clearing"]]
  /\ UNCHANGED << user_details, now, ticks, env, lastWriter >>
  /\ UNCHANGED << points, docVars, trimCall, authVars, cacheVars >>

ClearHistory(r) ==
  /\ req[r].kind = "clear" /\ req[r].pc = "clearing"
  /\ user_details' = UpdateHistory(user_details, req[r].user, << >>)
  /\ req' = [req EXCEPT ![r] =
               Respond([req[r] EXCEPT !.nWrites = @ + 1, !.written = << >>,
                                      !.cleared = Stored(req[r].user),
                                      !.commitTime = now, !.pc = "done"],
                       200, "cleared")]
  /\ lastWriter' = r
  /\ UNCHANGED << now, ticks, env >>
  /\ UNCHANGED << points, docVars, trimCall, authVars, cacheVars >>

ClearFails(r) ==
  /\ req[r].kind = "clear" /\ req[r].pc = "clearing"
  /\ req' = [req EXCEPT ![r] = OuterCatch(req[r], "PersistenceError")]
  /\ UNCHANGED << user_details, now, ticks, env, lastWriter >>
  /\ UNCHANGED << points, docVars, trimCall, authVars, cacheVars >>

\* Time passes.  The clock is read by the handlers only (when the profile
\* is loaded and when the updated history is built), so it advances while a
\* handler that will still read it is in flight.
Tick ==
  /\ ticks < MaxTicks
  /\ \E r \in DOMAIN req :
       req[r].pc \in {"findOne", "create", "retrieving", "generating",
                      "streaming", "clearing"}
  /\ now' = now + TickMs
  /\ ticks' = ticks + 1
  /\ UNCHANGED << user_details, req, env, lastWriter >>
  /\ UNCHANGED << points, docVars, trimCall, authVars, cacheVars >>

Slots == DOMAIN req

Next ==
  \/ \E r \in Slots, kind \in {"chat", "stream"}, body \in Bodies,
        auto \in BOOLEAN :
       Start(r, kind, body.message, body.context, auto)
  \/ \E r \in Slots : LoadProfile(r)
  \/ \E r \in Slots : CreateProfile(r)
  \/ \E r \in Slots : LoadFails(r)
  \/ \E r \in Slots : Retrieve(r)
  \/ \E r \in Slots, embedded \in BOOLEAN : RetrieveFails(r, embedded)
  \/ \E r \in Slots, response \in Responses : Generate(r, response)
  \/ \E r \in Slots : GenerateFails(r)
  \/ \E r \in Slots : StreamChunk(r)
  \/ \E r \in Slots : StreamEnd(r)
  \/ \E r \in Slots : StreamFails(r)
  \/ \E r \in Slots : Disconnect(r)
  \/ \E r \in Slots : Commit(r)
  \/ \E r \in Slots : CommitFails(r)
  \/ \E r \in Slots : StartClear(r)
  \/ \E r \in Slots : ClearHistory(r)
  \/ \E r \in Slots : ClearFails(r)
  \/ Tick

Spec == Init /\ [][Next]_vars

SpecConcurrent == InitConcurrent /\ [][Next]_vars

(***************************************************************************)
(* The document handlers: controllers/documentController.ts.  up says      *)
(* whether Qdrant and the embedding backend answer during the request.     *)
(***************************************************************************)
MaxBatch == 100

\* The document requests of a run.
MaxDocRequests == 4

NoId == "none"

DocTexts == { Rep("a", 2), Rep("b", 3) }

Doc(id, text) == [id |-> id, text |-> text]

\* The documents arrays of storeBatchDocuments: none, one with an id, two
\* without id, and one document more than the maximum.
Batches ==
  { << >>,
    << Doc("d1", Rep("a", 2)) >>,
    << Doc(NoId, Rep("a", 2)), Doc(NoId, Rep("b", 3)) >>,
    [i \in 1..(MaxBatch + 1) |-> Doc("d1", Rep("a", 2))] }

\* A document request arrives.
DocArrives ==
  /\ docCount < MaxDocRequests
  /\ docCount' = docCount + 1

\* The owners of the points a request changed or removed.
Affected(old, new) ==
  {old[id].user_id : id \in {i \in PointIds : old[i] # NoPoint /\ new[i] # old[i]}}

\* total is the total of the list response, 0 in the others.
DocResponse(op, user, up, status, results, new) ==
  [ op |-> op, user |-> user, up |-> up, status |-> status,
    results |-> results, total |-> 0, affected |-> Affected(points, new) ]

\* client.upsert of the prepared documents of a batch, in order
RECURSIVE UpsertAll(_, _, _, _)
UpsertAll(pts, documents, user, index) ==
  IF documents = << >> THEN pts
  ELSE UpsertAll(
         Upsert(pts,
                IF Head(documents).id = NoId
                THEN GenBatchId(user, now, index)
                ELSE Head(documents).id,
                Point(Head(documents).text, user)),
         Tail(documents), user, index + 1)

StoreDocument(user, id, text, up) ==
  /\ DocArrives
  /\ LET docId == IF id = NoId THEN GenId(user, now) ELSE id
         new == IF text = EmptyStr \/ ~up THEN points
                ELSE Upsert(points, docId, Point(text, user))
     IN  /\ points' = new
         /\ docRes' = DocResponse("store", user, up,
                                  IF text = EmptyStr THEN 400
                                  ELSE IF ~up THEN 500 ELSE 201,
                                  << >>, new)
  /\ UNCHANGED << chatVars, docReq, trimCall, authVars, cacheVars >>

StoreBatchDocuments(user, documents, up) ==
  /\ DocArrives
  /\ LET rejected == Len(documents) = 0 \/ Len(documents) > MaxBatch
         new == IF rejected \/ ~up THEN points
                ELSE UpsertAll(points, documents, user, 0)
     IN  /\ points' = new
         /\ docRes' = DocResponse("storeBatch", user, up,
                                  IF rejected THEN 400
                                  ELSE IF ~up THEN 500 ELSE 201,
                                  << >>, new)
  /\ UNCHANGED << chatVars, docReq, trimCall, authVars, cacheVars >>

\* searchDocuments: a failing search throws and the handler answers 500.
SearchDocuments(user, hasQuery, limit, global, up) ==
  /\ DocArrives
  /\ IF ~hasQuery
     THEN docRes' = DocResponse("search", user, up, 400, << >>, points)
     ELSE IF ~up
     THEN docRes' = DocResponse("search", user, up, 500, << >>, points)
     ELSE \E results \in (IF global THEN search(points, limit, NoFilter)
                          ELSE searchByUser(points, user, limit)) :
            docRes' = DocResponse("search", user, up, 200, results, points)
  /\ UNCHANGED << chatVars, docReq, points, trimCall, authVars, cacheVars >>

\* getDocumentById: a failing retrieve makes getDocument return null.
GetDocumentById(user, id, up) ==
  /\ DocArrives
  /\ LET document == IF up THEN getDocument(points, id) ELSE << >>
     IN  docRes' = DocResponse("get", user, up,
                               IF document = << >> THEN 404 ELSE 200,
                               document, points)
  /\ UNCHANGED << chatVars, docReq, points, trimCall, authVars, cacheVars >>

\* listDocuments up to its second await, in the first free slot:
\* client.scroll answers with the documents of the user, or fails and
\* qdrant.listDocuments returns [].
ListDocumentsScroll(l, user, up) ==
  /\ docReq[l].pc = "idle"
  /\ \A k \in ListSlots : k < l => docReq[k].pc # "idle"
  /\ DocArrives
  /\ docReq' = [docReq EXCEPT ![l] =
                  [ pc |-> "count", user |-> user, up |-> up,
                    documents |-> IF up
                                  THEN listDocuments(points, user, ListLimit)
                                  ELSE << >> ]]
  /\ UNCHANGED << chatVars, points, docRes, trimCall, authVars, cacheVars >>

\* listDocuments from its second await: client.count answers, or fails and
\* qdrant.countDocuments returns 0; the response carries the documents read
\* at the first await.
ListDocumentsCount(l, up) ==
  /\ docReq[l].pc = "count"
  /\ docRes' = [DocResponse("list", docReq[l].user, docReq[l].up /\ up, 200,
                            docReq[l].documents, points)
                  EXCEPT !.total = IF up
                                   THEN countDocuments(points, docReq[l].user)
                                   ELSE 0]
  /\ docReq' = [docReq EXCEPT ![l] = IdleList]
  /\ UNCHANGED << chatVars, points, docCount, trimCall, authVars, cacheVars >>

DeleteDocument(user, id, up) ==
  /\ DocArrives
  /\ LET new == IF up THEN deleteDocument(points, id) ELSE points
     IN  /\ points' = new
         /\ docRes' = DocResponse("delete", user, up,
                                  IF up THEN 200 ELSE 500, << >>, new)
  /\ UNCHANGED << chatVars, docReq, trimCall, authVars, cacheVars >>

DeleteAllUserDocuments(user, up) ==
  /\ DocArrives
  /\ LET new == IF up THEN deleteByUser(points, user) ELSE points
     IN  /\ points' = new
         /\ docRes' = DocResponse("deleteAll", user, up,
                                  IF up THEN 200 ELSE 500, << >>, new)
  /\ UNCHANGED << chatVars, docReq, trimCall, authVars, cacheVars >>

InitDocuments ==
  /\ env = AllKeys
  /\ user_details = << >>
  /\ req = [r \in Req |-> IdleReq]
  /\ now = StartTime
  /\ ticks = 0
  /\ lastWriter = 0
  /\ users = NoUsers
  /\ auth = NoAuth
  /\ points = EmptyPoints
  /\ docRes = NoDocRes
  /\ docReq = NoDocReq
  /\ docCount = 0
  /\ trimCall = NoTrimCall
  /\ cache = NewCache(DefaultCacheMaxSize)
  /\ cacheRes = NoCacheRes
  /\ embed = [e \in EmbedSlots |-> IdleEmbed]

NextDocuments ==
  \/ \E user \in Users, id \in {NoId, "d1"}, text \in DocTexts \cup {EmptyStr},
        up \in BOOLEAN :
       StoreDocument(user, id, text, up)
  \/ \E user \in Users, documents \in Batches, up \in BOOLEAN :
       StoreBatchDocuments(user, documents, up)
  \/ \E user \in Users, hasQuery \in BOOLEAN, limit \in SearchLimits,
        global \in BOOLEAN, up \in BOOLEAN :
       SearchDocuments(user, hasQuery, limit, global, up)
  \/ \E user \in Users, id \in PointIds, up \in BOOLEAN :
       GetDocumentById(user, id, up)
  \/ \E l \in ListSlots, user \in Users, up \in BOOLEAN :
       ListDocumentsScroll(l, user, up)
  \/ \E l \in ListSlots, up \in BOOLEAN : ListDocumentsCount(l, up)
  \/ \E user \in Users, id \in PointIds, up \in BOOLEAN :
       DeleteDocument(user, id, up)
  \/ \E user \in Users, up \in BOOLEAN : DeleteAllUserDocuments(user, up)

SpecDocuments == InitDocuments /\ [][NextDocuments]_vars

(***************************************************************************)
(* chatController.ts: getSettings, updateSettings                          *)
(***************************************************************************)
\* updateSettings arrives and calls getUserDetails.
StartSettings(r, body) ==
  /\ req[r].pc = "idle"
  /\ req' = [req EXCEPT ![r] = [req[r] EXCEPT !.kind = "settings",
                                              !.settings = body,
                                              !.pc = "settingsFind"]]
  /\ UNCHANGED << user_details, now, ticks, env, lastWriter >>
  /\ UNCHANGED << points, docVars, trimCall, authVars, cacheVars >>

\* getSettings of req.user up to its first await: getUserDetails is called.
getSettings(q, user) ==
  [q EXCEPT !.kind = "getSettings", !.user = user, !.pc = "settingsFind"]

\* getSettings arrives and calls getUserDetails.
StartGetSettings(r) ==
  /\ req[r].pc = "idle"
  /\ req' = [req EXCEPT ![r] = getSettings(req[r], req[r].user)]
  /\ UNCHANGED << user_details, now, ticks, env, lastWriter >>
  /\ UNCHANGED << points, docVars, trimCall, authVars, cacheVars >>

\* The six fields of the row that getSettings answers with.
SettingsOf(row) ==
  SettingsBody(Given(row.llm_model), Given(row.llm_config),
               Given(row.embedding_provider), Given(row.embedding_config),
               Given(row.preferences), Given(row.personal_info))

\* The handler once getUserDetails has answered with the row: getSettings
\* answers 200 with its fields, updateSettings calls UserDetail.update.
AfterSettingsProfile(q, row) ==
  IF q.kind = "getSettings"
  THEN Respond([q EXCEPT !.pc = "done", !.settings = SettingsOf(row)],
               200, "settings")
  ELSE [q EXCEPT !.pc = "settingsUpdate"]

\* getUserDetails: UserDetail.findOne answers.
SettingsLoad(r) ==
  /\ req[r].pc = "settingsFind"
  /\ req' = [req EXCEPT ![r] =
               IF HasRow(user_details, req[r].user)
               THEN AfterSettingsProfile(req[r],
                                         FindOne(user_details, req[r].user))
               ELSE [req[r] EXCEPT !.pc = "settingsCreate"]]
  /\ UNCHANGED << user_details, now, ticks, env, lastWriter >>
  /\ UNCHANGED << points, docVars, trimCall, authVars, cacheVars >>

\* getUserDetails: UserDetail.create answers, or is rejected by the unique
\* index.
SettingsCreate(r) ==
  /\ req[r].pc = "settingsCreate"
  /\ IF HasRow(user_details, req[r].user)
     THEN /\ req' = [req EXCEPT ![r] = OuterCatch(req[r], "UniqueViolation")]
          /\ user_details' = user_details
     ELSE /\ user_details' = Append(user_details, Row(req[r].user, << >>))
          /\ req' = [req EXCEPT ![r] =
                       AfterSettingsProfile(req[r], Row(req[r].user, << >>))]
  /\ UNCHANGED << now, ticks, env, lastWriter >>
  /\ UNCHANGED << points, docVars, trimCall, authVars, cacheVars >>

\* UserDetail.update(updates) answers: 200.
UpdateSettings(r) ==
  /\ req[r].pc = "settingsUpdate"
  /\ user_details' = UpdateFields(user_details, req[r].user, req[r].settings)
  /\ req' = [req EXCEPT ![r] =
               Respond([req[r] EXCEPT !.pc = "done"], 200, "updated")]
  /\ UNCHANGED << now, ticks, env, lastWriter >>
  /\ UNCHANGED << points, docVars, trimCall, authVars, cacheVars >>

\* A database call of getSettings or updateSettings rejects: 500.
SettingsFails(r) ==
  /\ req[r].pc \in {"settingsFind", "settingsCreate", "settingsUpdate"}
  /\ req' = [req EXCEPT ![r] = OuterCatch(req[r], "PersistenceError")]
  /\ UNCHANGED << user_details, now, ticks, env, lastWriter >>
  /\ UNCHANGED << points, docVars, trimCall, authVars, cacheVars >>

\* One chat or chatStream in the first slot, one updateSettings or
\* getSettings of the same user in the second, in any interleaving.
NextSettings ==
  \/ \E kind \in {"chat", "stream"}, body \in Bodies :
       Start(1, kind, body.message, body.context, FALSE)
  \/ \E r \in Slots : LoadProfile(r)
  \/ \E r \in Slots : CreateProfile(r)
  \/ \E r \in Slots, response \in Responses : Generate(r, response)
  \/ \E r \in Slots : StreamChunk(r)
  \/ \E r \in Slots : StreamEnd(r)
  \/ \E r \in Slots : Commit(r)
  \/ \E body \in SettingsBodies : StartSettings(2, body)
  \/ StartGetSettings(2)
  \/ \E r \in Slots : SettingsLoad(r)
  \/ \E r \in Slots : SettingsCreate(r)
  \/ \E r \in Slots : UpdateSettings(r)
  \/ \E r \in Slots : SettingsFails(r)

SpecSettings == InitSettings /\ [][NextSettings]_vars

(***************************************************************************)
(* The cache called directly: get, set and clear of an EmbeddingCache      *)
(* built with a small maxSize or with the default one.                     *)
(***************************************************************************)
MaxCacheTicks == 3

CacheSizes == {1, 2}

CacheTexts == { Rep("a", 1), Rep("b", 1), Rep("a", 2) }

Vectors == { << 1, 0 >>, << 0, 1 >> }

CacheCall(op, text, embedding, result) ==
  [ op |-> op, text |-> text, embedding |-> embedding, result |-> result,
    before |-> cache.entries, at |-> now,
    prev |-> [ op |-> cacheRes.op, text |-> cacheRes.text,
               embedding |-> cacheRes.embedding, at |-> cacheRes.at ] ]

CacheSet(text, embedding) ==
  /\ cache' = [cache EXCEPT !.entries =
                 cacheSet(@, cache.maxSize, text, embedding, now)]
  /\ cacheRes' = CacheCall("set", text, embedding, NoEmbedding)
  /\ UNCHANGED << chatVars, points, docVars, trimCall, authVars, embed >>

CacheGet(text) ==
  /\ LET got == cacheGet(cache.entries, cache.ttlMs, text, now)
     IN  /\ cache' = [cache EXCEPT !.entries = got.entries]
         /\ cacheRes' = CacheCall("get", text, << >>, got.result)
  /\ UNCHANGED << chatVars, points, docVars, trimCall, authVars, embed >>

\* EmbeddingCache.clear
CacheClear ==
  /\ cache.entries # << >>
  /\ cache' = [cache EXCEPT !.entries = << >>]
  /\ cacheRes' = CacheCall("clear", EmptyStr, << >>, NoEmbedding)
  /\ UNCHANGED << chatVars, points, docVars, trimCall, authVars, embed >>

\* Time passes between two calls of the cache.
CacheTick ==
  /\ ticks < MaxCacheTicks
  /\ cacheRes.op # "none"
  /\ now' = now + TickMs
  /\ ticks' = ticks + 1
  /\ UNCHANGED << user_details, req, env, lastWriter >>
  /\ UNCHANGED << points, docVars, trimCall, authVars, cacheVars >>

InitCache ==
  /\ env = AllKeys
  /\ user_details = << >>
  /\ req = [r \in Req |-> IdleReq]
  /\ now = StartTime
  /\ ticks = 0
  /\ lastWriter = 0
  /\ users = NoUsers
  /\ auth = NoAuth
  /\ points = EmptyPoints
  /\ docRes = NoDocRes
  /\ docReq = NoDocReq
  /\ docCount = 0
  /\ trimCall = NoTrimCall
  /\ cache \in { NewCache(maxSize) : maxSize \in CacheSizes }
  /\ cacheRes = NoCacheRes
  /\ embed = [e \in EmbedSlots |-> IdleEmbed]

NextCache ==
  \/ \E text \in CacheTexts, embedding \in Vectors : CacheSet(text, embedding)
  \/ \E text \in CacheTexts : CacheGet(text)
  \/ CacheClear
  \/ CacheTick

SpecCache == InitCache /\ [][NextCache]_vars

\* The cache called with texts of one length among which two have the same
\* hash: "Aa" and "BB" (31 * 65 + 97 = 31 * 66 + 66 = 2112), and "ab".
CollidingTexts ==
  { Concat(Rep("A", 1), Rep("a", 1)), Rep("B", 2),
    Concat(Rep("a", 1), Rep("b", 1)) }

NextCollide ==
  \/ \E text \in CollidingTexts, embedding \in Vectors :
       CacheSet(text, embedding)
  \/ \E text \in CollidingTexts : CacheGet(text)
  \/ CacheClear
  \/ CacheTick

SpecCollide == InitCache /\ [][NextCollide]_vars

(***************************************************************************)
(* chatController.ts: generateEmbedding, with the global EmbeddingCache    *)
(***************************************************************************)
MaxEmbedTicks == 3

MaxEmbeddingChars == 10000

MaxEmbeddingBatch == 100

\* if (text), if (texts): a number stands for a non-zero one
TruthyVal(v) ==
  \/ v.type \in {"number", "array"}
  \/ v.type = "string" /\ v.str # EmptyStr

\* The number of errors validateEmbeddingText returns.
validateEmbeddingText(text) ==
  IF text.type # "string" THEN 1
  ELSE (IF StrLen(StrTrim(text.str)) = 0 THEN 1 ELSE 0)
       + (IF StrLen(text.str) > MaxEmbeddingChars THEN 1 ELSE 0)

\* validateEmbeddingBatch: whether it throws (item.length of null or
\* undefined), and the number of errors it returns otherwise.
validateEmbeddingBatch(texts) ==
  IF texts.type # "array" THEN [threw |-> FALSE, errors |-> 1]
  ELSE IF \E i \in 1..Len(texts.items) :
            texts.items[i].type \in {"null", "undefined"}
  THEN [threw |-> TRUE, errors |-> 0]
  ELSE [threw |-> FALSE,
        errors |->
          (IF Len(texts.items) = 0 THEN 1 ELSE 0)
          + (IF Len(texts.items) > MaxEmbeddingBatch THEN 1 ELSE 0)
          + Cardinality({i \in 1..Len(texts.items) :
                           texts.items[i].type # "string"})
          + Cardinality({i \in 1..Len(texts.items) :
                           ItemLength(texts.items[i]) > MaxEmbeddingChars})]

EmbedBody(text, texts) == [text |-> text, texts |-> texts]

EmbedTextA == Rep("a", 1)

EmbedTextB == Rep("b", 1)

EmbedBodies ==
  { EmbedBody(text, Undefined) :
      text \in { Undefined, StrVal(EmptyStr), StrVal(Rep(" ", 1)), NumVal,
                 StrVal(Rep("a", MaxEmbeddingChars + 1)),
                 StrVal(EmbedTextA), StrVal(EmbedTextB) } }
  \cup
  { EmbedBody(StrVal(EmptyStr), texts) :
      texts \in { StrVal(EmbedTextA), ArrVal(<< >>), ArrVal(<< Null >>),
                  ArrVal(<< NumVal >>),
                  ArrVal(<< StrVal(EmbedTextA), StrVal(EmbedTextA) >>),
                  ArrVal(<< StrVal(EmbedTextA), StrVal(EmbedTextB) >>) } }

\* What EmbeddingService.embed may answer.
RawVectors == { << 3, 0 >>, << 0, 5 >> }

EmbedDone(q, status) == [q EXCEPT !.pc = "done", !.status = status]

\* The texts never looked up in the cache.
RECURSIVE AdvanceWithoutCache(_, _, _, _, _, _)
AdvanceWithoutCache(todo, embeddings, entries, ttlMs, useCache, dateNow) ==
  [todo |-> todo, embeddings |-> embeddings, entries |-> entries]

\* let embedding = cache?.get(text) || null, for the texts in turn up to the
\* first one the cache does not answer: the texts left, the embeddings
\* collected and the entries of the cache.
RECURSIVE Advance(_, _, _, _, _, _)
Advance(todo, embeddings, entries, ttlMs, useCache, dateNow) ==
  IF todo = << >>
  THEN [todo |-> todo, embeddings |-> embeddings, entries |-> entries]
  ELSE LET got == IF useCache
                  THEN cacheGet(entries, ttlMs, Head(todo), dateNow)
                  ELSE [result |-> NoEmbedding, entries |-> entries]
       IN  IF got.result.found
           THEN Advance(Tail(todo), Append(embeddings, got.result.embedding),
                        got.entries, ttlMs, useCache, dateNow)
           ELSE [todo |-> todo, embeddings |-> embeddings,
                 entries |-> got.entries]

\* The handler from a step of its loop to the next await or to its response.
EmbedContinue(q, adv, dateNow) ==
  [q EXCEPT !.pc = IF adv.todo = << >> THEN "done" ELSE "embedding",
            !.status = IF adv.todo = << >> THEN 200 ELSE 0,
            !.todo = adv.todo,
            !.embeddings = adv.embeddings,
            !.lookupAt = IF q.use_cache THEN dateNow ELSE @]

\* The handler once getUserDetails has answered with the row: new
\* EmbeddingService throws when the provider of the merged config is gemini
\* and there is no API key; otherwise the cache is asked.
EmbedAfterProfile(e, row) ==
  IF EmbeddingClientThrows(embeddingConfig(row))
  THEN /\ embed' = [embed EXCEPT ![e] = EmbedDone(@, 500)]
       /\ cache' = cache
  ELSE \E adv \in {Advance(embed[e].todo, << >>, cache.entries, cache.ttlMs,
                             embed[e].use_cache, now)} :
         /\ embed' = [embed EXCEPT ![e] = EmbedContinue(@, adv, now)]
         /\ cache' = [cache EXCEPT !.entries = adv.entries]

\* generateEmbedding arrives: validation of text or texts.
EmbedStart(e, body, use_cache) ==
  /\ embed[e].pc = "idle"
  /\ LET arrived == [embed[e] EXCEPT
                       !.use_cache = use_cache,
                       !.after = {o \in EmbedSlots : embed[o].pc = "done"}]
         batch == validateEmbeddingBatch(body.texts)
         input == IF TruthyVal(body.text) THEN << body.text.str >>
                  ELSE [i \in 1..Len(body.texts.items) |->
                          body.texts.items[i].str]
         valid == IF TruthyVal(body.text)
                  THEN validateEmbeddingText(body.text) = 0
                  ELSE /\ TruthyVal(body.texts)
                       /\ ~batch.threw
                       /\ batch.errors = 0
     IN  embed' = [embed EXCEPT ![e] =
           IF valid
           THEN [arrived EXCEPT !.pc = "findOne",
                                !.single = TruthyVal(body.text),
                                !.input = input, !.todo = input]
           ELSE IF ~TruthyVal(body.text) /\ TruthyVal(body.texts) /\ batch.threw
           THEN EmbedDone(arrived, 500)
           ELSE EmbedDone(arrived, 400)]
  /\ UNCHANGED << chatVars, points, docVars, trimCall, authVars >>
  /\ UNCHANGED << cache, cacheRes >>

\* EmbedLoad waiting while another request awaits the embedding service.
EmbedLoadWaitingForEmbed(e) ==
  /\ embed[e].pc = "findOne"
  /\ \A o \in EmbedSlots : embed[o].pc # "embedding"
  /\ IF HasRow(user_details, UserId)
     THEN EmbedAfterProfile(e, FindOne(user_details, UserId))
     ELSE /\ embed' = [embed EXCEPT ![e].pc = "create"]
          /\ cache' = cache
  /\ UNCHANGED << chatVars, points, docVars, trimCall, authVars, cacheRes >>

\* getUserDetails: UserDetail.findOne answers.
EmbedLoad(e) ==
  /\ embed[e].pc = "findOne"
  /\ IF HasRow(user_details, UserId)
     THEN EmbedAfterProfile(e, FindOne(user_details, UserId))
     ELSE /\ embed' = [embed EXCEPT ![e].pc = "create"]
          /\ cache' = cache
  /\ UNCHANGED << chatVars, points, docVars, trimCall, authVars, cacheRes >>

\* getUserDetails: no row was found, UserDetail.create answers.
EmbedCreate(e) ==
  /\ embed[e].pc = "create"
  /\ IF HasRow(user_details, UserId)
     THEN /\ user_details' = user_details
          /\ embed' = [embed EXCEPT ![e] = EmbedDone(@, 500)]
          /\ cache' = cache
     ELSE /\ user_details' = Append(user_details, Row(UserId, << >>))
          /\ EmbedAfterProfile(e, Row(UserId, << >>))
  /\ UNCHANGED << req, now, ticks, env, lastWriter >>
  /\ UNCHANGED << points, docVars, trimCall, authVars, cacheRes >>

\* embeddingService.embed answers: normalize, cache?.set, and on.
EmbedAnswer(e, raw) ==
  /\ embed[e].pc = "embedding"
  /\ LET q == embed[e]
         embedding == normalizeEmbedding(raw)
         called == [q EXCEPT !.calls = @ + 1,
                             !.setAt = IF q.use_cache THEN now ELSE @]
     IN  \E entries \in {IF q.use_cache
                         THEN cacheSet(cache.entries, cache.maxSize,
                                       Head(q.todo), embedding, now)
                         ELSE cache.entries} :
         \E adv \in {Advance(Tail(q.todo), Append(q.embeddings, embedding),
                             entries, cache.ttlMs, q.use_cache, now)} :
           /\ embed' = [embed EXCEPT ![e] =
                          [EmbedContinue(called, adv, now) EXCEPT
                             !.lookupAt = IF q.use_cache /\ Tail(q.todo) # << >>
                                          THEN now ELSE q.lookupAt]]
           /\ cache' = [cache EXCEPT !.entries = adv.entries]
  /\ UNCHANGED << chatVars, points, docVars, trimCall, authVars, cacheRes >>

\* A database call or embeddingService.embed rejects: the catch answers 500.
EmbedFails(e) ==
  /\ embed[e].pc \in {"findOne", "create", "embedding"}
  /\ embed' = [embed EXCEPT ![e] =
                 EmbedDone([@ EXCEPT !.calls =
                              IF embed[e].pc = "embedding" THEN @ + 1 ELSE @],
                           500)]
  /\ UNCHANGED << chatVars, points, docVars, trimCall, authVars >>
  /\ UNCHANGED << cache, cacheRes >>

\* Time passes during and between the requests.
EmbedTick ==
  /\ ticks < MaxEmbedTicks
  /\ \E e \in EmbedSlots : embed[e].pc # "idle"
  /\ now' = now + TickMs
  /\ ticks' = ticks + 1
  /\ UNCHANGED << user_details, req, env, lastWriter >>
  /\ UNCHANGED << points, docVars, trimCall, authVars, cacheVars >>

\* Profiles whose embedding_config names its own provider, as updateSettings
\* stores them: fastapi over the gemini column, and gemini over fastapi;
\* they are seeded where no key is set, where the two differ.
EmbedSeedRows ==
  { [Row(UserId, << >>) EXCEPT
       !.embedding_provider = "gemini",
       !.embedding_config = << Entry("provider", "fastapi"),
                               Entry("fastapiUrl", "http://embed") >>],
    [Row(UserId, << >>) EXCEPT
       !.embedding_provider = "fastapi",
       !.embedding_config = << Entry("provider", "gemini") >>] }

\* The environments of the embedding runs: the default provider with and
\* without its key, and EMBEDDING_PROVIDER set to fastapi, which needs none.
EmbedEnvs ==
  { Env(TRUE, FALSE, "undefined"), Env(FALSE, FALSE, "undefined"),
    Env(FALSE, FALSE, "fastapi") }

InitEmbed ==
  /\ env \in EmbedEnvs
  /\ user_details \in
       {<< >>} \cup (IF env = Env(FALSE, FALSE, "undefined")
                     THEN { << row >> : row \in EmbedSeedRows } ELSE {})
  /\ req = [r \in Req |-> IdleReq]
  /\ now = StartTime
  /\ ticks = 0
  /\ lastWriter = 0
  /\ users = NoUsers
  /\ auth = NoAuth
  /\ points = EmptyPoints
  /\ docRes = NoDocRes
  /\ docReq = NoDocReq
  /\ docCount = 0
  /\ trimCall = NoTrimCall
  /\ cache = NewCache(DefaultCacheMaxSize)
  /\ cacheRes = NoCacheRes
  /\ embed = [e \in EmbedSlots |-> IdleEmbed]

NextEmbed ==
  \/ \E e \in EmbedSlots, body \in EmbedBodies, use_cache \in BOOLEAN :
       EmbedStart(e, body, use_cache)
  \/ \E e \in EmbedSlots : EmbedLoad(e)
  \/ \E e \in EmbedSlots : EmbedCreate(e)
  \/ \E e \in EmbedSlots, raw \in RawVectors : EmbedAnswer(e, raw)
  \/ \E e \in EmbedSlots : EmbedFails(e)
  \/ EmbedTick

SpecEmbed == InitEmbed /\ [][NextEmbed]_vars

(***************************************************************************)
(* generateEmbedding when the global EmbeddingCache is one entry short of  *)
(* its capacity: earlier requests have stored maxSize - 1 texts. The clock *)
(* stands still: no entry expires within these requests.                   *)
(***************************************************************************)
\* The number of binary digits of n.
RECURSIVE Digits(_)
Digits(n) == IF n = 0 THEN 0 ELSE 1 + Digits(n \div 2)

\* The length of the texts stored earlier: enough digits to tell maxSize
\* texts apart.
FillerLen == Digits(DefaultCacheMaxSize)

\* The i-th text stored earlier: i in binary, "a" for 0 and "b" for 1, on
\* the given number of digits.
RECURSIVE FillerText(_, _)
FillerText(i, digits) ==
  IF digits = 0 THEN EmptyStr
  ELSE Concat(FillerText(i \div 2, digits - 1),
              Rep(IF i % 2 = 0 THEN "a" ELSE "b", 1))

\* The Map after set(text, embedding) of the first n of these texts.
FilledEntries(n) ==
  [i \in 1..n |->
     CachedEmbedding(getKey(FillerText(i, FillerLen)),
                     FillerText(i, FillerLen), << 1, 0 >>, StartTime)]

\* The bodies: a text, two texts, and a text that is in the cache.
AtCapacityBodies ==
  { EmbedBody(StrVal(EmbedTextA), Undefined),
    EmbedBody(StrVal(EmptyStr),
              ArrVal(<< StrVal(EmbedTextA), StrVal(EmbedTextB) >>)),
    EmbedBody(StrVal(FillerText(1, FillerLen)), Undefined) }

InitEmbedAtCapacity ==
  /\ env = Env(TRUE, FALSE, "undefined")
  /\ user_details = << Row(UserId, << >>) >>
  /\ req = [r \in Req |-> IdleReq]
  /\ now = StartTime
  /\ ticks = 0
  /\ lastWriter = 0
  /\ users = NoUsers
  /\ auth = NoAuth
  /\ points = EmptyPoints
  /\ docRes = NoDocRes
  /\ docReq = NoDocReq
  /\ docCount = 0
  /\ trimCall = NoTrimCall
  /\ cache = [NewCache(DefaultCacheMaxSize) EXCEPT
                !.entries = FilledEntries(DefaultCacheMaxSize - 1)]
  /\ cacheRes = NoCacheRes
  /\ embed = [e \in EmbedSlots |-> IdleEmbed]

NextEmbedAtCapacity ==
  \/ \E e \in EmbedSlots, body \in AtCapacityBodies, use_cache \in BOOLEAN :
       EmbedStart(e, body, use_cache)
  \/ \E e \in EmbedSlots : EmbedLoad(e)
  \/ \E e \in EmbedSlots, raw \in RawVectors : EmbedAnswer(e, raw)
  \/ \E e \in EmbedSlots : EmbedFails(e)

SpecEmbedAtCapacity == InitEmbedAtCapacity /\ [][NextEmbedAtCapacity]_vars

(***************************************************************************)
(* smartTrimConversationHistory as a function: the calls the trimmer's     *)
(* properties are checked on.                                              *)
(***************************************************************************)
MaxTrimLen == 3

\* The turns the transcripts are made of, for Date.now() = StartTime: no
\* timestamp, one hour old, exactly 24 hours old, 30 hours old, timestamp 0,
\* an ISO string of one hour ago, and a turn of 10,000 characters.
TrimTurns ==
  { Legacy("user", "a", 5),
    Stamped("assistant", "b", 8, StartTime - 1 * Hour),
    Stamped("user", "a", 3, StartTime - DefaultHoursToKeep * Hour),
    Stamped("assistant", "b", 4, StartTime - 30 * Hour),
    Stamped("user", "b", 2, 0),
    Turn("assistant", Rep("a", 6), ToISOString(StartTime - 1 * Hour)),
    Legacy("assistant", "b", 10000) }

\* All transcripts of at most MaxTrimLen of these turns, and some long ones:
\* 21 turns; 25 turns of one minute apart; 25 turns spanning 30 hours; 4
\* turns of 10,000 characters, and the same after a short turn; 2 turns of
\* 16,000 characters of role plus content each; a 30 hours old turn, a short
\* turn and 2 turns of 20,000 characters.
TrimHistories ==
  UNION { [1..n -> TrimTurns] : n \in 0..MaxTrimLen }
    \cup { [i \in 1..21 |-> Legacy("user", "a", i)],
           [i \in 1..25 |-> Stamped("user", "b", i, StartTime - (26 - i) * 60000)],
           [i \in 1..25 |-> Stamped("user", "a", i,
                                    StartTime - (25 - i) * 75 * 60000)],
           SeedBig,
           << Legacy("user", "a", 5) >> \o SeedBig,
           << Legacy("assistant", "a", 15991), Legacy("assistant", "b", 15991) >>,
           << Stamped("user", "a", 3, StartTime - 30 * Hour),
              Legacy("assistant", "b", 4),
              Legacy("user", "a", 20000), Legacy("assistant", "b", 20000) >> }

TrimMaxMessages == {0, 1, 2, DefaultMaxMessages}

InitTrim ==
  /\ env = AllKeys
  /\ user_details = << >>
  /\ req = [r \in Req |-> IdleReq]
  /\ now = StartTime
  /\ ticks = 0
  /\ lastWriter = 0
  /\ users = NoUsers
  /\ auth = NoAuth
  /\ points = EmptyPoints
  /\ docRes = NoDocRes
  /\ docReq = NoDocReq
  /\ docCount = 0
  /\ trimCall \in { [NoTrimCall EXCEPT !.history = h, !.maxMessages = m] :
                      h \in TrimHistories, m \in TrimMaxMessages }
  /\ cache = NewCache(DefaultCacheMaxSize)
  /\ cacheRes = NoCacheRes
  /\ embed = [e \in EmbedSlots |-> IdleEmbed]

\* smartTrimConversationHistory(history, maxMessages) is called, and called
\* again on its result.
ApplyTrim ==
  /\ ~trimCall.applied
  /\ LET out == smartTrimConversationHistoryWith(
                  trimCall.history, trimCall.maxMessages, DefaultHoursToKeep,
                  trimCall.dateNow)
     IN  trimCall' = [trimCall EXCEPT
                        !.applied = TRUE,
                        !.byAge = trimByAge(trimCall.history,
                                            DefaultHoursToKeep, trimCall.dateNow),
                        !.lastN = trimToLastN(
                                    trimByAge(trimCall.history,
                                              DefaultHoursToKeep,
                                              trimCall.dateNow),
                                    trimCall.maxMessages),
                        !.out = out,
                        !.again = smartTrimConversationHistoryWith(
                                    out, trimCall.maxMessages,
                                    DefaultHoursToKeep, trimCall.dateNow)]
  /\ UNCHANGED << chatVars, points, docVars, cacheVars, authVars >>

NextTrim == ApplyTrim

SpecTrim == InitTrim /\ [][NextTrim]_vars

(***************************************************************************)
(* What the specification promises, for the claims below                   *)
(***************************************************************************)
\* TokenEstimator: ceil(length / 4)
estimateTokens(text) == (StrLen(text) + CHARS_PER_TOKEN - 1) \div CHARS_PER_TOKEN

RoleStr(role) == Rep("a", RoleLen(role))

RECURSIVE TotalTokens(_)
TotalTokens(h) ==
  IF h = << >> THEN 0
  ELSE estimateTokens(RoleStr(Head(h).role)) + estimateTokens(Head(h).content)
       + TotalTokens(Tail(h))

RECURSIVE TotalChars(_)
TotalChars(h) ==
  IF h = << >> THEN 0 ELSE MessageChars(Head(h)) + TotalChars(Tail(h))

\* No timestamped turn of h is older than the retention window at time t.
NoneAged(h, t) ==
  \A i \in 1..Len(h) :
    h[i].timestamp.kind # "none"
      => t - h[i].timestamp.t <= DefaultHoursToKeep * MsPerHour

\* h is within the count, age and token bounds at time t.
WithinBounds(h, t) ==
  /\ Len(h) <= DefaultMaxMessages
  /\ TotalTokens(h) <= MAX_HISTORY_TOKENS
  /\ NoneAged(h, t)

\* The transcript invariant of the data model, at time t.
TranscriptInvariant(h, t) ==
  /\ Len(h) <= DefaultMaxMessages
  /\ TotalChars(h) <= MAX_HISTORY_CHARS
  /\ NoneAged(h, t)

EndsWithPair(h, message, response) ==
  /\ Len(h) >= 2
  /\ h[Len(h) - 1].role = "user" /\ h[Len(h) - 1].content = message
  /\ h[Len(h)].role = "assistant" /\ h[Len(h)].content = response

IsChat(r) == req[r].kind = "chat"

IsStream(r) == req[r].kind = "stream"

Committed(r) == req[r].kind \in {"chat", "stream"} /\ req[r].nWrites > 0

\* The chunk events of the first n chunks the backend yields, in order.
ChunkEvents(n) == [k \in 1..n |-> Event("chunk", ChunkAt(k))]

RECURSIVE ConcatChunks(_)
ConcatChunks(evs) ==
  IF evs = << >> THEN EmptyStr
  ELSE IF Head(evs).type = "chunk"
       THEN Concat(Head(evs).text, ConcatChunks(Tail(evs)))
       ELSE ConcatChunks(Tail(evs))

IsTerminal(ev) == ev.type \in {"done", "error"}

(***************************************************************************)
(* authController.ts, middleware/auth.ts: login, approval, authenticateUser *)
(***************************************************************************)
\* jwt.verify(token, JWT_SECRET): the signature is the server's and the
\* token has not expired.
jwtVerify(bearer, tokens) ==
  bearer.kind = "issued" /\ tokens[bearer.sub] = "valid"

\* The email and password fields of a body of register or login; "" stands
\* for a field that is absent or empty, which `!field` treats alike.
AuthEmails == AuthUsers \cup {""}

\* Every user registers with Password.
Password == "pw"

AuthPasswords == {Password, "bad", ""}

\* register up to its first await: a body without email or password
\* answers 400, otherwise findUserByEmail is called.
RegisterStart(g, email, password) ==
  /\ auth.registers[g].pc = "idle"
  /\ auth' = [auth EXCEPT !.registers[g] =
                IF email = "" \/ password = ""
                THEN [@ EXCEPT !.pc = "done", !.email = email, !.status = 400]
                ELSE [@ EXCEPT !.pc = "findUserByEmail", !.email = email]]
  /\ UNCHANGED << users, chatVars, points, docVars, trimCall, cacheVars >>

\* findUserByEmail returns: a known email answers 409, otherwise the
\* password is hashed and insertUser is called; when the call rejects the
\* catch answers 500.
RegisterFind(g, answers) ==
  /\ auth.registers[g].pc = "findUserByEmail"
  /\ auth' = [auth EXCEPT !.registers[g] =
                IF ~answers
                THEN [@ EXCEPT !.pc = "done", !.status = 500]
                ELSE IF users[auth.registers[g].email].exists
                THEN [@ EXCEPT !.pc = "done", !.status = 409]
                ELSE [@ EXCEPT !.pc = "insertUser"]]
  /\ UNCHANGED << users, chatVars, points, docVars, trimCall, cacheVars >>

\* insertUser returns: the user is inserted unapproved and the answer is
\* 201; when the email was inserted meanwhile the unique column rejects
\* the insert, and when bcrypt.hash or the insert rejects otherwise nothing
\* is inserted: the catch answers 500.
RegisterInsert(g, answers) ==
  /\ auth.registers[g].pc = "insertUser"
  /\ LET u == auth.registers[g].email
     IN  IF ~answers \/ users[u].exists
         THEN /\ users' = users
              /\ auth' = [auth EXCEPT !.registers[g] =
                            [@ EXCEPT !.pc = "done", !.status = 500]]
         ELSE /\ users' = [users EXCEPT ![u] = [NoUser EXCEPT !.exists = TRUE]]
              /\ auth' = [auth EXCEPT !.registers[g] =
                            [@ EXCEPT !.pc = "done", !.status = 201]]
  /\ UNCHANGED << chatVars, points, docVars, trimCall, cacheVars >>

\* updateUserApprovalStatus: the admin sets the approved column; an unknown
\* user answers 404 and nothing is changed.
SetApproval(u, approved) ==
  /\ users[u].changes < MaxApprovalChanges
  /\ users' = [users EXCEPT ![u] =
                 IF users[u].exists
                 THEN [@ EXCEPT !.approved = approved, !.changes = @ + 1]
                 ELSE @]
  /\ UNCHANGED << auth, chatVars, points, docVars, trimCall, cacheVars >>

\* login up to its first await: a body without email or password answers
\* 400, otherwise findUserByEmail is called.
LoginStart(l, email, password) ==
  /\ auth.logins[l].pc = "idle"
  /\ LET q == [auth.logins[l] EXCEPT !.email = email,
                                     !.passwordOk = (password = Password)]
     IN  auth' = [auth EXCEPT !.logins[l] =
                   IF email = "" \/ password = ""
                   THEN [q EXCEPT !.pc = "done", !.status = 400]
                   ELSE [q EXCEPT !.pc = "findUserByEmail"]]
  /\ UNCHANGED << users, chatVars, points, docVars, trimCall, cacheVars >>

\* findUserByEmail returns: an unknown user answers 401, otherwise
\* bcrypt.compare is awaited with the record that was read; when the call
\* rejects the catch answers 500.
LoginFind(l, answers) ==
  /\ auth.logins[l].pc = "findUserByEmail"
  /\ LET user == users[auth.logins[l].email]
     IN  auth' = [auth EXCEPT !.logins[l] =
                   IF ~answers
                   THEN [@ EXCEPT !.pc = "done", !.status = 500]
                   ELSE IF ~user.exists
                   THEN [@ EXCEPT !.pc = "done", !.status = 401]
                   ELSE [@ EXCEPT !.pc = "compare", !.user = user]]
  /\ UNCHANGED << users, chatVars, points, docVars, trimCall, cacheVars >>

\* bcrypt.compare returns: a wrong password answers 401, a record read as
\* unapproved answers 200 without a token, otherwise the token is signed;
\* when the call rejects the catch answers 500 and no token is signed.
LoginIssue(l, answers) ==
  /\ auth.logins[l].pc = "compare"
  /\ LET q == auth.logins[l]
     IN  IF ~answers
         THEN auth' = [auth EXCEPT !.logins[l] =
                         [@ EXCEPT !.pc = "done", !.status = 500]]
         ELSE IF ~q.passwordOk
         THEN auth' = [auth EXCEPT !.logins[l] =
                         [@ EXCEPT !.pc = "done", !.status = 401]]
         ELSE IF ~q.user.approved
         THEN auth' = [auth EXCEPT !.logins[l] =
                         [@ EXCEPT !.pc = "done", !.status = 200]]
         ELSE auth' = [auth EXCEPT
                         !.logins[l] =
                            [@ EXCEPT !.pc = "done", !.status = 200,
                                      !.token = TRUE,
                                      !.approvedAtIssue =
                                         users[q.email].approved],
                         !.tokens[q.email] = "valid"]
  /\ UNCHANGED << users, chatVars, points, docVars, trimCall, cacheVars >>

\* The seven days of a token pass.
TokenExpires(u) ==
  /\ auth.tokens[u] = "valid"
  /\ auth' = [auth EXCEPT !.tokens[u] = "expired"]
  /\ UNCHANGED << users, chatVars, points, docVars, trimCall, cacheVars >>

\* authenticateUser up to its await: no token and a token that does not
\* verify answer 401, otherwise getUserById(payload.sub) is called.
AuthStart(r, bearer) ==
  /\ auth.requests[r].pc = "idle"
  /\ bearer.kind = "issued" => auth.tokens[bearer.sub] # "none"
  /\ LET atStart == IF bearer.kind = "missing" THEN NoUser
                    ELSE users[bearer.sub]
         q == [auth.requests[r] EXCEPT !.bearer = bearer, !.atStart = atStart]
     IN  auth' = [auth EXCEPT !.requests[r] =
                   IF bearer.kind = "missing"
                   THEN [q EXCEPT !.pc = "done", !.status = 401]
                   ELSE IF ~jwtVerify(bearer, auth.tokens)
                   THEN [q EXCEPT !.pc = "done", !.status = 401]
                   ELSE [q EXCEPT !.pc = "getUserById", !.verified = TRUE]]
  /\ UNCHANGED << users, chatVars, points, docVars, trimCall, cacheVars >>

\* getUserById returns: no user answers 404, an unapproved one 403,
\* otherwise req.user is set and next() runs the handler of the route,
\* getSettings, up to its first await; when the call rejects the catch
\* answers 401.  From there the request is req[r] of the handler, whose
\* steps are SettingsLoad, SettingsCreate and SettingsFails.
AuthLookup(r, answers) ==
  /\ auth.requests[r].pc = "getUserById"
  /\ LET sub == auth.requests[r].bearer.sub
         user == users[sub]
         passes == answers /\ user.exists /\ user.approved
     IN  /\ auth' = [auth EXCEPT !.requests[r] =
                      IF ~answers
                      THEN [@ EXCEPT !.pc = "done", !.status = 401]
                      ELSE IF ~user.exists
                      THEN [@ EXCEPT !.pc = "done", !.status = 404]
                      ELSE IF ~user.approved
                      THEN [@ EXCEPT !.pc = "done", !.status = 403]
                      ELSE [@ EXCEPT !.pc = "handler", !.ranHandler = TRUE,
                                     !.atNext = user]]
         /\ req' = IF passes
                   THEN [req EXCEPT ![r] = getSettings(@, sub)]
                   ELSE req
  /\ UNCHANGED << users, user_details, now, ticks, env, lastWriter >>
  /\ UNCHANGED << points, docVars, trimCall, cacheVars >>

NextAuth ==
  \/ \E g \in RegisterSlots, email \in AuthEmails, password \in {Password, ""} :
       RegisterStart(g, email, password)
  \/ \E g \in RegisterSlots, answers \in BOOLEAN : RegisterFind(g, answers)
  \/ \E g \in RegisterSlots, answers \in BOOLEAN : RegisterInsert(g, answers)
  \/ \E u \in AuthUsers, approved \in BOOLEAN : SetApproval(u, approved)
  \/ \E l \in LoginSlots, email \in AuthEmails, password \in AuthPasswords :
       LoginStart(l, email, password)
  \/ \E l \in LoginSlots, answers \in BOOLEAN : LoginFind(l, answers)
  \/ \E l \in LoginSlots, answers \in BOOLEAN : LoginIssue(l, answers)
  \/ \E u \in AuthUsers : TokenExpires(u)
  \/ \E r \in AuthSlots, bearer \in Bearers : AuthStart(r, bearer)
  \/ \E r \in AuthSlots, answers \in BOOLEAN : AuthLookup(r, answers)
  \/ \E r \in AuthSlots : SettingsLoad(r)
  \/ \E r \in AuthSlots : SettingsCreate(r)
  \/ \E r \in AuthSlots : SettingsFails(r)

\* No user registered, no profile stored, and one request of the handler
\* for each request of the middleware.
InitAuth ==
  /\ env = AllKeys
  /\ user_details = << >>
  /\ req = [r \in AuthSlots |-> IdleReq]
  /\ now = StartTime
  /\ ticks = 0
  /\ lastWriter = 0
  /\ users = NoUsers
  /\ auth = NoAuth
  /\ points = EmptyPoints
  /\ docRes = NoDocRes
  /\ docReq = NoDocReq
  /\ docCount = 0
  /\ trimCall = NoTrimCall
  /\ cache = NewCache(DefaultCacheMaxSize)
  /\ cacheRes = NoCacheRes
  /\ embed = [e \in EmbedSlots |-> IdleEmbed]

SpecAuth == InitAuth /\ [][NextAuth]_vars

(***************************************************************************)
(* Claims                                                                  *)
(***************************************************************************)

\* C1: after a successful whole-response chat with autoRetrieve = false whose
\* backend returned r, the transcript persisted for the user ends with the
\* two new turns {user, message}, {assistant, r}.
C1_ChatPersistsBothTurns ==
  \A r \in DOMAIN req :
    (IsChat(r) /\ req[r].pc = "done" /\ ~req[r].auto_retrieve)
      => EndsWithPair(req[r].written, req[r].message.str, req[r].fullResponse)

\* C2: whenever the transcript T loaded at the start of the request followed
\* by the two new turns is within the count, age and token bounds, the
\* transcript persisted by chat or chatStream is T followed by the two new
\* turns.
C2_CommitAppendsToLoaded ==
  \A r \in DOMAIN req :
    LET appended == req[r].history
                      \o NewTurns(req[r].message.str, req[r].fullResponse,
                                  req[r].commitTime)
    IN  (Committed(r) /\ WithinBounds(appended, req[r].commitTime))
          => req[r].written = appended

\* C3: a chat or chatStream request performs at most one transcript write; a
\* completed request has performed exactly one; none is performed before
\* generation has completed (in particular while chunks are forwarded), nor
\* by a request that failed.
C3_OneWriteAfterGeneration ==
  \A r \in DOMAIN req :
    req[r].kind \in {"chat", "stream"} =>
      /\ req[r].nWrites <= 1
      /\ req[r].pc = "done" => req[r].nWrites = 1
      /\ req[r].pc # "done" => req[r].nWrites = 0
      /\ req[r].nWrites = 1 /\ IsStream(r)
           => /\ req[r].sent # << >>
              /\ req[r].sent[Len(req[r].sent)].type = "done"

C3_Witness ==
  \E r \in DOMAIN req :
    /\ IsStream(r) /\ req[r].pc = "done"
    /\ req[r].nChunks >= 2 /\ req[r].nWrites = 1

\* C4: every transcript written by chat, chatStream or clearHistory satisfies
\* the transcript invariant at the time the write is issued: at most 20
\* turns, at most 32,000 characters of role plus content, no timestamped
\* turn older than 24 hours.
C4_WrittenTranscriptBounded ==
  \A r \in DOMAIN req :
    req[r].nWrites > 0 => TranscriptInvariant(req[r].written, req[r].commitTime)

\* A commit whose trim removed turns for size and a commit that dropped an
\* aged turn.
C4_Witness ==
  \E r \in DOMAIN req :
    /\ Committed(r)
    /\ req[r].written # << >>
    /\ Len(req[r].written) < Len(req[r].history)
    /\ ~TranscriptInvariant(req[r].history, req[r].commitTime)

\* C5: when two chat requests of one user overlap and load the same
\* transcript T, after both have finished the stored transcript is the one
\* of the request that committed last: T followed by that request's two
\* turns (when that is within the bounds).
C5_LastCommitWins ==
  \A r1, r2 \in DOMAIN req :
    LET appended == req[r2].history
                      \o NewTurns(req[r2].message.str, req[r2].fullResponse,
                                  req[r2].commitTime)
    IN  ( /\ r1 # r2 /\ IsChat(r1) /\ IsChat(r2)
          /\ req[r1].pc = "done" /\ req[r2].pc = "done"
          /\ req[r1].history = req[r2].history
          /\ lastWriter = r2
          /\ WithinBounds(appended, req[r2].commitTime) )
        => Stored(req[r2].user) = appended

\* C6: when the caller of a chatStream has disconnected in mid-stream, no
\* transcript update is persisted for that request.
C6_DisconnectSkipsCommit ==
  \A r \in DOMAIN req :
    (IsStream(r) /\ ~req[r].connected) => req[r].nWrites = 0

\* C7: when the LLM backend fails during generation the request ends failed,
\* it performs no transcript write, the failing step leaves the stored
\* transcripts unchanged, and in whole-response mode the caller gets an
\* error response (status 500), never the {response, message} result.
C7_GenerationFailureWritesNothing ==
  /\ [](\A r \in DOMAIN req :
          req[r].failure = "GenerationError" =>
            /\ req[r].pc = "failed"
            /\ req[r].nWrites = 0
            /\ IsChat(r) => (req[r].status = 500 /\ req[r].body = "error"))
  /\ [][\A r \in DOMAIN req :
          (req[r].failure # "GenerationError"
             /\ req'[r].failure = "GenerationError")
            => user_details' = user_details]_vars

C7_Witness ==
  /\ \E r \in DOMAIN req :
       /\ IsStream(r) /\ req[r].failure = "GenerationError"
       /\ req[r].nChunks >= 1
  /\ Stored(UserId) # << >>

\* C8: when the backend of a chatStream fails after k chunks were forwarded,
\* the channel carries exactly those k chunk events in order followed by one
\* error event, no done event, and it is closed.
C8_StreamFailureEvents ==
  \A r \in DOMAIN req :
    (IsStream(r) /\ req[r].failure = "GenerationError") =>
      /\ req[r].sent = Append(ChunkEvents(req[r].nChunks),
                              Event("error", EmptyStr))
      /\ req[r].ended
      /\ req[r].lateWrites = 0

C8_Witness ==
  \E r \in DOMAIN req :
    /\ IsStream(r) /\ req[r].failure = "GenerationError"
    /\ req[r].nChunks >= 2 /\ req[r].connected

\* C9: a chatStream that has started streaming sends exactly one terminal
\* event (done or error), it is the last event, and nothing is written to
\* the channel after it, whichever later step fails.
C9_TerminalEventIsLast ==
  \A r \in DOMAIN req :
    IsStream(r) =>
      /\ req[r].lateWrites = 0
      /\ \A i \in 1..Len(req[r].sent) :
           IsTerminal(req[r].sent[i]) => i = Len(req[r].sent)
      /\ req[r].ended /\ req[r].sent # << >>
           => IsTerminal(req[r].sent[Len(req[r].sent)])

\* C10: a chatStream forwards the chunks in the order the backend yielded
\* them, one event per chunk, and the transcript it commits ends with an
\* assistant turn whose content is the concatenation of the forwarded
\* chunks in that order.
C10_StreamOrderAndCommittedTurn ==
  \A r \in DOMAIN req :
    (IsStream(r) /\ req[r].pc = "done") =>
      /\ req[r].sent = Append(ChunkEvents(req[r].nChunks),
                              Event("done", EmptyStr))
      /\ req[r].written # << >>
      /\ req[r].written[Len(req[r].written)].role = "assistant"
      /\ req[r].written[Len(req[r].written)].content
           = ConcatChunks(req[r].sent)

\* C11: when the transcript write of the commit fails, the caller still has
\* the generated response (chat: the {response, message} result; chatStream:
\* all chunks and then done), no error is surfaced, nothing more is written
\* to the channel and no transcript write has happened.
C11_CommitFailureStillDelivers ==
  \A r \in DOMAIN req :
    (req[r].kind \in {"chat", "stream"} /\ req[r].failure = "PersistenceError")
      => /\ IsChat(r) => (req[r].status = 200 /\ req[r].body = "result")
         /\ IsStream(r) => req[r].sent = Append(ChunkEvents(req[r].nChunks),
                                                Event("done", EmptyStr))
         /\ req[r].lateWrites = 0
         /\ req[r].nWrites = 0

\* The inputs the specification calls invalid.
InvalidMessage(m) ==
  \/ m.type # "string"
  \/ StrLen(StrTrim(m.str)) = 0
  \/ StrLen(m.str) > 10000

InvalidContext(c) ==
  /\ c.type = "array"
  /\ \/ Len(c.items) > 10
     \/ \E i \in 1..Len(c.items) :
          c.items[i].type # "string" \/ StrLen(c.items[i].str) > 5000

Arrived(r) == req[r].kind \in {"chat", "stream"} /\ req[r].pc # "idle"

\* C12: a chat or chatStream request whose message or context is invalid
\* ends with a ValidationError reported to the caller (status 400), never
\* another failure kind, and has done nothing else: no retrieval, no
\* generation, no transcript write.
C12_InvalidInputIsValidationError ==
  \A r \in DOMAIN req :
    (Arrived(r)
       /\ (InvalidMessage(req[r].message) \/ InvalidContext(req[r].context)))
      => /\ req[r].pc = "failed"
         /\ req[r].failure = "ValidationError"
         /\ req[r].status = 400
         /\ req[r].nWrites = 0
         /\ req[r].results = << >>
         /\ req[r].fullResponse = EmptyStr

\* C13: a chat or chatStream request with a valid message and no context
\* passes validation: it does not end with a ValidationError.
C13_ContextIsOptional ==
  \A r \in DOMAIN req :
    (Arrived(r) /\ ~InvalidMessage(req[r].message)
       /\ req[r].context.type = "undefined")
      => req[r].failure # "ValidationError"

\* C14: a request whose retrieval failed goes on with an empty retrieval
\* set: it is at generation, at commit or done, or it failed there; it never
\* failed because of the retrieval.
C14_RetrievalFailureNeverFails ==
  \A r \in DOMAIN req :
    req[r].retrieveFailed
      => /\ req[r].auto_retrieve
         /\ req[r].retrievedDocs = << >>
         /\ req[r].pc \in {"generating", "streaming", "committing", "done",
                           "failed"}
         /\ req[r].failure \in {"none", "GenerationError", "PersistenceError"}

\* A chat and a chatStream whose retrieval failed have both committed.
C14_Witness ==
  \E r1, r2 \in DOMAIN req :
    /\ IsChat(r1) /\ IsStream(r2)
    /\ req[r1].retrieveFailed /\ req[r2].retrieveFailed
    /\ req[r1].pc = "done" /\ req[r2].pc = "done"
    /\ req[r1].nWrites = 1 /\ req[r2].nWrites = 1

\* C15: when the vector store search (or the query embedding) fails, the
\* search answers with an empty sequence of results instead of an error.
C15_SearchFailureReturnsEmpty ==
  (docRes.op = "search" /\ ~docRes.up /\ docRes.status # 400)
    => (docRes.status = 200 /\ docRes.results = << >>)

\* C16: the documents retrieved for a chat or chatStream all carry the
\* requester's id as user_id, and the texts placed in the prompt are the
\* texts of those documents.
C16_RetrievalScopedToRequester ==
  \A r \in DOMAIN req :
    /\ \A k \in 1..Len(req[r].results) :
         req[r].results[k].user_id = req[r].user
    /\ req[r].retrievedDocs = Texts(req[r].results)

\* A request has retrieved a document while the collection holds a document
\* of another user.
C16_Witness ==
  \E r \in DOMAIN req :
    /\ req[r].results # << >>
    /\ req[r].pc \in {"generating", "streaming"}
    /\ \E id \in PointIds : points[id].user_id \notin {"none", req[r].user}

\* C17: a document request returns only documents of the requester and
\* changes or removes only points of the requester.
C17_DocumentsPrivatePerUser ==
  docRes.op # "none"
    => /\ \A k \in 1..Len(docRes.results) :
            docRes.results[k].user_id = docRes.user
       /\ docRes.affected \subseteq {docRes.user}

\* C18: trim is idempotent: for a fixed now, trimming the result of a trim
\* again gives the same transcript.
C18_TrimIdempotent ==
  trimCall.applied => trimCall.again = trimCall.out

\* A trim that removed some turns and kept others.
C18_Witness ==
  /\ trimCall.applied
  /\ trimCall.out # << >>
  /\ Len(trimCall.out) < Len(trimCall.history)
  /\ trimCall.again = trimCall.out

\* Every turn of h that has a timestamp has a numeric one of age at most
\* the retention window at time t.
AllWithinRetention(h, t) ==
  \A i \in 1..Len(h) :
    \/ h[i].timestamp.kind = "none"
    \/ /\ h[i].timestamp.kind = "num"
       /\ t - h[i].timestamp.t <= DefaultHoursToKeep * MsPerHour

\* C19: trim is a no-op on bounded input: a transcript within the token
\* budget, of at most maxMessages turns, all of age at most the retention
\* window (an age equal to it included), is returned unchanged.
C19_TrimNoOpOnBounded ==
  ( /\ trimCall.applied
    /\ TotalTokens(trimCall.history) <= MAX_HISTORY_TOKENS
    /\ Len(trimCall.history) <= trimCall.maxMessages
    /\ AllWithinRetention(trimCall.history, trimCall.dateNow) )
  => trimCall.out = trimCall.history

\* C20: for every transcript and every maxMessages, trim returns at most
\* maxMessages turns.
C20_TrimAtMostMaxMessages ==
  trimCall.applied => Len(trimCall.out) <= trimCall.maxMessages

\* The age filter as the specification words it: a turn without a timestamp
\* is kept, a turn with one is kept when it is not older than the cutoff.
SpecAgeKeeps(msg, hours, t) ==
  \/ msg.timestamp.kind = "none"
  \/ msg.timestamp.t >= t - hours * MsPerHour

SpecAgeStage(h, hours, t) ==
  SelectSeq(h, LAMBDA msg : SpecAgeKeeps(msg, hours, t))

\* C21: the age filter keeps a turn that has a timestamp if and only if the
\* timestamp is not older than now - retentionHours, and keeps every turn
\* without a timestamp.
C21_AgeFilterKeepsExactlyRecent ==
  trimCall.applied
    => trimCall.byAge
         = SpecAgeStage(trimCall.history, DefaultHoursToKeep, trimCall.dateNow)

\* C22: after trim the retained turns' estimate(role) + estimate(content),
\* with estimate(t) = ceil(length(t) / 4), sum to at most 8000 tokens.
C22_TrimWithinTokenBudget ==
  trimCall.applied => TotalTokens(trimCall.out) <= MAX_HISTORY_TOKENS

IsSuffix(a, b) ==
  Len(a) <= Len(b) /\ a = SubSeq(b, Len(b) - Len(a) + 1, Len(b))

\* a is b with some elements left out, the others in their order.
RECURSIVE IsSubsequence(_, _)
IsSubsequence(a, b) ==
  IF a = << >> THEN TRUE
  ELSE IF b = << >> THEN FALSE
  ELSE IF Head(a) = Head(b) THEN IsSubsequence(Tail(a), Tail(b))
  ELSE IsSubsequence(a, Tail(b))

\* The budget cap as the specification words it: the longest most-recent
\* suffix whose turns' estimate(role) + estimate(content) sum to at most
\* maxHistoryTokens.
SpecBudgetStage(h) ==
  LET suffix(k) == SubSeq(h, Len(h) - k + 1, Len(h))
      fits == {k \in 0..Len(h) : TotalTokens(suffix(k)) <= MAX_HISTORY_TOKENS}
  IN  suffix(CHOOSE k \in fits : \A j \in fits : j <= k)

\* The stages run in the order age filter, count cap, budget cap, each on
\* the output of the one before, and keep the turns in their order.
StagesInOrder ==
  trimCall.applied
    => /\ IsSubsequence(trimCall.byAge, trimCall.history)
       /\ IsSuffix(trimCall.lastN, trimCall.byAge)
       /\ IsSuffix(trimCall.out, trimCall.lastN)

\* What the last stage keeps: the longest most-recent suffix of its input
\* within MAX_HISTORY_CHARS characters of role and content; it stops at the
\* first turn that does not fit and keeps no older turn.
LastStageIsLongestSuffixInChars ==
  trimCall.applied
    => /\ TotalChars(trimCall.out) <= MAX_HISTORY_CHARS
       /\ Len(trimCall.out) < Len(trimCall.lastN)
            => TotalChars(trimCall.out)
                 + MessageChars(trimCall.lastN[Len(trimCall.lastN)
                                                 - Len(trimCall.out)])
               > MAX_HISTORY_CHARS

\* C28: trim is the age filter, then the count cap, then the token-budget
\* cap, each on the output of the one before; the result is a subsequence
\* of the input in its order; and the token stage keeps exactly the longest
\* most-recent contiguous suffix of its input that fits the token budget.
C28_StagesInOrderContiguousSuffix ==
  /\ StagesInOrder
  /\ trimCall.applied => trimCall.out = SpecBudgetStage(trimCall.lastN)

\* get(text) on the entries at time t finds a vector.
Retrievable(entries, ttlMs, text, t) ==
  cacheGet(entries, ttlMs, text, t).result.found

\* The last call of the cache was a get right after a set of the same text,
\* no later than the TTL after it.
GetRightAfterSet ==
  /\ cacheRes.op = "get"
  /\ cacheRes.prev.op = "set"
  /\ cacheRes.prev.text = cacheRes.text
  /\ cacheRes.at - cacheRes.prev.at <= cache.ttlMs

\* C23: set(x, v) immediately followed by get(x) within the TTL returns v.
C23_SetThenGetReturnsVector ==
  GetRightAfterSet => cacheRes.result = Found(cacheRes.prev.embedding)

\* C23 witness: a get of x exactly one TTL after set(x, v), with two entries
\* in the cache, that found a vector.
C23_Witness ==
  /\ GetRightAfterSet
  /\ cacheRes.at - cacheRes.prev.at = cache.ttlMs
  /\ cacheRes.result.found
  /\ Len(cacheRes.before) = 2

\* The last call was a set of a key that was not in a full cache.
SetOfNewKeyAtCapacity ==
  /\ cacheRes.op = "set"
  /\ Len(cacheRes.before) = cache.maxSize
  /\ KeyIndex(cacheRes.before, getKey(cacheRes.text)) = 0

\* C24: with maxSize distinct keys in the cache, the set of one more key makes
\* the earliest-inserted key no longer retrievable and leaves every other
\* stored key retrievable with its vector; a get keeps the order of the
\* entries that remain, and a get that hits leaves the entries as they were.
C24_InsertionOrderEviction ==
  /\ SetOfNewKeyAtCapacity =>
       /\ ~Retrievable(cache.entries, cache.ttlMs, cacheRes.before[1].text, now)
       /\ \A i \in 2..Len(cacheRes.before) :
            cacheGet(cache.entries, cache.ttlMs, cacheRes.before[i].text, now).result
              = cacheGet(cacheRes.before, cache.ttlMs, cacheRes.before[i].text, now).result
  /\ cacheRes.op = "get" =>
       /\ cacheRes.result.found => cache.entries = cacheRes.before
       /\ IsSubsequence(cache.entries, cacheRes.before)
       /\ Len(cache.entries) >= Len(cacheRes.before) - 1

\* C24 witness: the first of two keys was read, then a third key was set: the
\* key that was read is gone and the second one is still retrievable.
C24_Witness ==
  /\ SetOfNewKeyAtCapacity
  /\ Len(cacheRes.before) = 2
  /\ cacheRes.prev.op = "get"
  /\ cacheRes.prev.text = cacheRes.before[1].text
  /\ Retrievable(cacheRes.before, cache.ttlMs, cacheRes.before[1].text, now)
  /\ Retrievable(cache.entries, cache.ttlMs, cacheRes.before[2].text, now)

\* C25: a set evicts only when the cache is at maxSize and the key is not
\* present; a set of a key that is present removes no other entry and leaves
\* the number of entries unchanged.
C25_SetOfPresentKeyEvictsNothing ==
  cacheRes.op = "set" =>
    LET present == KeyIndex(cacheRes.before, getKey(cacheRes.text)) # 0
        full    == Len(cacheRes.before) >= cache.maxSize
    IN  /\ ~(full /\ ~present) => Keys(cacheRes.before) \subseteq Keys(cache.entries)
        /\ present => Len(cache.entries) = Len(cacheRes.before)

\* C26: get(text) returns the stored vector if and only if the key is there
\* and now - insertedAt <= ttl; a get of an expired entry returns nothing and
\* removes that entry and no other.
C26_GetHitsIffLive ==
  cacheRes.op = "get" =>
    LET key     == getKey(cacheRes.text)
        i       == KeyIndex(cacheRes.before, key)
        live    == i # 0 /\ cacheRes.at - cacheRes.before[i].timestamp <= cache.ttlMs
        Other(entry) == entry.key # key
    IN  /\ cacheRes.result.found <=> live
        /\ live => cacheRes.result.embedding = cacheRes.before[i].embedding
        /\ cache.entries = IF i # 0 /\ ~live
                           THEN SelectSeq(cacheRes.before, Other)
                           ELSE cacheRes.before

\* C26 witness: a get of an expired entry while another entry is stored.
C26_Witness ==
  /\ cacheRes.op = "get"
  /\ ~cacheRes.result.found
  /\ Len(cacheRes.before) = 2
  /\ Len(cache.entries) = 1
  /\ KeyIndex(cacheRes.before, getKey(cacheRes.text)) # 0

\* Request second embedded, with the cache, the one text that request first
\* had embedded with the cache: first was answered before second arrived, and
\* second asked the cache no later than the TTL after first stored the vector.
SameTextTwice(first, second) ==
  /\ first # second
  /\ first \in embed[second].after
  /\ embed[first].status = 200 /\ embed[second].status = 200
  /\ embed[first].single /\ embed[second].single
  /\ embed[first].use_cache /\ embed[second].use_cache
  /\ embed[first].input = embed[second].input
  /\ embed[second].lookupAt - embed[first].setAt <= cache.ttlMs

\* C27 (state part): the two requests make one call of the embedding service
\* together, the second none, and return the same vector; a request with
\* use_cache = false calls the service for every text, whatever is cached.
C27_State ==
  /\ \A first, second \in EmbedSlots :
       SameTextTwice(first, second) =>
         /\ embed[first].calls = 1
         /\ embed[second].calls = 0
         /\ embed[second].embeddings = embed[first].embeddings
  /\ \A e \in EmbedSlots :
       embed[e].status = 200 /\ ~embed[e].use_cache =>
         embed[e].calls = Len(embed[e].input)

\* C27 (step part): no step of a request with use_cache = false changes the
\* cache.
C27_Step ==
  \A e \in EmbedSlots :
    embed'[e] # embed[e] /\ ~embed'[e].use_cache => cache' = cache

\* C27: with caching enabled, embedding the same text twice within the TTL
\* makes exactly one call of the embedding service (the second request makes
\* none and returns the same vector); with use_cache = false the cache is
\* neither read nor written.
C27_SecondEmbedIsCached == [](C27_State) /\ [][C27_Step]_vars

\* C27 witness: the same text embedded twice, the second time exactly one TTL
\* after the first, the second request having made no call.
C27_Witness ==
  \E first, second \in EmbedSlots :
    /\ SameTextTwice(first, second)
    /\ embed[second].lookupAt - embed[first].setAt = cache.ttlMs
    /\ embed[second].calls = 0
    /\ embed[second].embeddings = << << 0, 1 >> >>

\* The request has built its prompt and waits for the LLM backend.
PromptBuilt(q) == q.pc \in {"generating", "streaming"}

\* The turns of the prompt between the system prompt and what follows the
\* history.
HistoryPart(q) ==
  LET tail == (IF Len(AllContext(q)) > 0 THEN 2 ELSE 1)
  IN  SubSeq(messages(q), 2, Len(messages(q)) - tail)

\* C29: the prompt is the synthesized system turn, then every turn of the
\* loaded history (trimmed first if and only if shouldCleanupHistory holds),
\* then one system turn with the caller context followed by the retrieved
\* texts if and only if there are any, then the new user turn.
C29_PromptComposition ==
  \A r \in DOMAIN req :
    PromptBuilt(req[r]) =>
      LET q == req[r]
          m == messages(q)
          n == Len(m)
      IN  /\ m[1].role = "system"
          /\ HasRow(user_details, q.user)
          /\ m[1].content = buildSystemPrompt(FindOne(user_details, q.user))
          /\ IF shouldCleanupHistory(q.history)
             THEN \E k \in 0..ticks :
                    HistoryPart(q)
                      = smartTrimConversationHistory(q.history, now - k * TickMs)
             ELSE HistoryPart(q) = q.history
          /\ Len(AllContext(q)) > 0 =>
               /\ m[n - 1].role = "system"
               /\ m[n - 1].content.parts = AllContext(q)
          /\ m[n].role = "user"
          /\ m[n].content = q.message.str
          /\ n = 2 + Len(HistoryPart(q))
                   + (IF Len(AllContext(q)) > 0 THEN 1 ELSE 0)

PersistedRoles == {"user", "assistant"}

\* C30: the system prompt and the context system turn are never persisted:
\* every turn of every stored transcript, and of every transcript handed to
\* UserDetail.update, has role user or assistant.
C30_NoSystemTurnPersisted ==
  /\ \A i \in 1..Len(user_details) :
       \A j \in 1..Len(user_details[i].conversation_history) :
         user_details[i].conversation_history[j].role \in PersistedRoles
  /\ \A r \in DOMAIN req :
       \A j \in 1..Len(req[r].updatedHistory) :
         req[r].updatedHistory[j].role \in PersistedRoles

\* C30 witness: a request whose prompt held the system prompt and the context
\* system turn (documents were retrieved) has committed, and a transcript is
\* stored.
C30_Witness ==
  \E r \in DOMAIN req :
    /\ Committed(r)
    /\ req[r].retrievedDocs # << >>
    /\ Len(messages(req[r])) = 3 + Len(req[r].recentHistory)
    /\ Stored(req[r].user) # << >>

\* The defaults the profile of a user is documented to be created with:
\* provider gemini, model gemini-2.5-flash, temperature 0.7, maxTokens 2048
\* and an empty transcript.
HasDocumentedDefaults(row, user) ==
  /\ row.user_id = user
  /\ row.llm_model = "gemini"
  /\ row.llm_config = [model |-> "gemini-2.5-flash", temperature |-> "0.7",
                       maxTokens |-> 2048]
  /\ row.conversation_history = << >>

ProfilesOf(table, user) == {i \in 1..Len(table) : table[i].user_id = user}

\* C31 (state part): no user has two profiles.
C31_State ==
  \A i, j \in 1..Len(user_details) :
    user_details[i].user_id = user_details[j].user_id => i = j

\* C31 (step part): a profile is added only for a user who has none, and it
\* is the documented default profile with an empty transcript.
C31_Step ==
  Len(user_details') > Len(user_details) =>
    \E user \in Users :
      /\ ProfilesOf(user_details, user) = {}
      /\ Len(user_details') = Len(user_details) + 1
      /\ SubSeq(user_details', 1, Len(user_details)) = user_details
      /\ HasDocumentedDefaults(user_details'[Len(user_details')], user)

\* C31: the first request of a user without a profile creates the default
\* profile, and no user ever has two profiles, also when two first requests
\* of the user both find no profile before either creates one.
C31_OneDefaultProfilePerUser == [](C31_State) /\ [][C31_Step]_vars

\* C31 witness: two first requests of the user both found no profile; one
\* created it, the insert of the other was rejected, and one profile exists.
C31_Witness ==
  /\ \E r \in DOMAIN req : req[r].failure = "UniqueViolation"
  /\ \E r \in DOMAIN req : req[r].failure = "none" /\ req[r].pc \notin {"idle", "findOne", "create"}
  /\ Len(user_details) = 1
  /\ user_details[1].llm_config.model = "gemini-2.5-flash"

\* The turns of a transcript.
TurnsOf(history) == { history[i] : i \in 1..Len(history) }

\* C37: after clearHistory has completed, no turn that was stored before the
\* clear is in the user's stored transcript again, also when a chat or
\* chatStream had loaded the transcript before the clear and commits after.
C37_ClearedTurnsNeverReappear ==
  \A c \in DOMAIN req :
    req[c].kind = "clear" /\ req[c].pc = "done" =>
      TurnsOf(Stored(req[c].user)) \cap TurnsOf(req[c].cleared) = {}

\* Every entry of the cache is whole: it sits under the key of its text, its
\* vector is a normalized one, and no key is there twice.
CacheWellFormed ==
  /\ \A i \in 1..Len(cache.entries) :
       /\ cache.entries[i].key = getKey(cache.entries[i].text)
       /\ cache.entries[i].embedding \in Vectors
  /\ Cardinality(Keys(cache.entries)) = Len(cache.entries)

\* The steps of a request that are calls of the cache.
CacheStepEnabled(e) ==
  CASE embed[e].pc = "findOne"   -> ENABLED EmbedLoad(e)
    [] embed[e].pc = "create"    -> ENABLED EmbedCreate(e)
    [] embed[e].pc = "embedding" -> ENABLED (\E raw \in RawVectors : EmbedAnswer(e, raw))
    [] OTHER -> TRUE

\* C32: under any interleaving of embed requests the cache is only ever seen
\* between two whole calls (every entry whole, no key twice), it is not held
\* across a call of the embedding service (while one request awaits the
\* service, the cache calls of the others can run), and it never holds more
\* than maxSize entries.
C32_CacheSafeUnderConcurrency ==
  /\ CacheWellFormed
  /\ Len(cache.entries) <= cache.maxSize
  /\ \A waiting, other \in EmbedSlots :
       waiting # other /\ embed[waiting].pc = "embedding" =>
         CacheStepEnabled(other)

\* C32 witness: one request missed its first text and awaits the embedding
\* service; meanwhile another request with the same two texts missed both
\* and stored their vectors: the first set filled the cache, the second
\* evicted the oldest entry, and the cache holds maxSize entries.
C32_Witness ==
  \E waiting, other \in EmbedSlots :
    /\ embed[waiting].pc = "embedding"
    /\ embed[waiting].use_cache
    /\ embed[other].pc = "done" /\ embed[other].status = 200
    /\ embed[other].use_cache /\ embed[other].calls = 2
    /\ embed[other].input = embed[waiting].input
    /\ embed[waiting].todo = embed[waiting].input
    /\ Len(cache.entries) = cache.maxSize
    /\ cache.entries[1].text = FillerText(2, FillerLen)
    /\ cache.entries[Len(cache.entries)].text = EmbedTextB

\* C33: after any sequence of get, set and clear on a cache built with
\* maxSize >= 1, the number of entries never exceeds maxSize.
C33_SizeNeverExceedsMaxSize ==
  cache.maxSize >= 1 => Len(cache.entries) <= cache.maxSize

\* C33 witness: a full cache of maxSize 1 took the set of another key right
\* after the set that had filled it, and holds one entry.
C33_Witness ==
  /\ cache.maxSize = 1
  /\ SetOfNewKeyAtCapacity
  /\ Len(cache.entries) = 1
  /\ cacheRes.prev.op = "set"
  /\ \E i \in 1..Len(cacheRes.before) : cacheRes.before[i].text = cacheRes.prev.text

\* The retrieval of the request has answered.
Retrieved(q) ==
  /\ q.auto_retrieve
  /\ ~q.retrieveFailed
  /\ q.pc \in {"generating", "streaming", "committing", "done", "failed"}
  /\ q.queryEmbeds > 0

\* C34: the query embedding of a retrieval is cache-checked: after a retrieval
\* the cache holds the query's vector, and two retrievals of the same query
\* text within the TTL make a single call of the embedding backend.
C34_RetrievalQueryIsCached ==
  /\ \A r \in DOMAIN req :
       Retrieved(req[r]) =>
         \E i \in 1..Len(cache.entries) :
           cache.entries[i].text = req[r].message.str
  /\ \A first, second \in DOMAIN req :
       /\ first # second
       /\ Retrieved(req[first]) /\ Retrieved(req[second])
       /\ req[first].message = req[second].message
       => req[first].queryEmbeds + req[second].queryEmbeds = 1

\* C35: get(text) returns a vector only if that vector was the last one
\* stored by set for that same text: the entry a lookup answers from was
\* stored for the text that is looked up.
C35_GetAnswersOnlyForItsText ==
  cacheRes.op = "get" /\ cacheRes.result.found =>
    LET i == KeyIndex(cacheRes.before, getKey(cacheRes.text))
    IN  /\ cacheRes.before[i].text = cacheRes.text
        /\ cacheRes.before[i].embedding = cacheRes.result.embedding

\* The times a trim may run after a commit at time t, in the model's steps.
LaterTimes(t) == { t + k * TickMs : k \in 0..3 }

\* C36: the timestamp written on the turns appended at commit is in the
\* representation the age filter compares: a turn committed at time t is kept
\* by the age filter run at time t' exactly when t' - t is within the
\* retention window, and it is in the transcript its own commit writes.
C36_CommitTimestampIsComparable ==
  \A r \in DOMAIN req :
    (req[r].kind \in {"chat", "stream"} /\ req[r].pc \in {"committing", "done"}) =>
      LET turns == NewTurns(req[r].message.str, req[r].fullResponse,
                            req[r].commitTime)
      IN  /\ \A i \in 1..Len(turns), later \in LaterTimes(req[r].commitTime) :
               (trimByAge(<< turns[i] >>, DefaultHoursToKeep, later) = << turns[i] >>)
                 <=> (later - req[r].commitTime <= DefaultHoursToKeep * MsPerHour)
          /\ \A i \in 1..Len(turns) :
               turns[i] \in TurnsOf(req[r].updatedHistory)

\* The body's fields that are given are the profile's values.
SettingsApplied(row, body) ==
  /\ body.llm_model.present => row.llm_model = body.llm_model.value
  /\ body.llm_config.present => row.llm_config = body.llm_config.value
  /\ body.embedding_provider.present =>
       row.embedding_provider = body.embedding_provider.value
  /\ body.embedding_config.present =>
       row.embedding_config = body.embedding_config.value
  /\ body.preferences.present => row.preferences = body.preferences.value
  /\ body.personal_info.present => row.personal_info = body.personal_info.value

\* C38: when an updateSettings and a chat or chatStream of the same user have
\* both succeeded, in whatever interleaving, the profile holds the new
\* settings and the transcript holds the new turns.
C38_SettingsAndTurnsBothKept ==
  \A c, u \in DOMAIN req :
    /\ req[c].kind \in {"chat", "stream"} /\ req[c].pc = "done"
    /\ req[c].nWrites > 0
    /\ req[u].kind = "settings" /\ req[u].pc = "done"
    => /\ SettingsApplied(FindOne(user_details, req[u].user), req[u].settings)
       /\ EndsWithPair(Stored(req[c].user), req[c].message.str,
                       req[c].fullResponse)

\* The part of C38 about what each write touches: updateSettings changes the
\* given fields only and never the transcript, and between an updateSettings
\* and a commit that have both succeeded the profile holds the new settings
\* and the transcript is the one the commit wrote.
SettingsAndCommitDisjoint ==
  \A c, u \in DOMAIN req :
    /\ req[c].kind \in {"chat", "stream"} /\ req[c].pc = "done"
    /\ req[c].nWrites > 0
    /\ req[u].kind = "settings" /\ req[u].pc = "done"
    => /\ SettingsApplied(FindOne(user_details, req[u].user), req[u].settings)
       /\ Stored(req[c].user) = req[c].written

\* The failures of a chatStream before its first await on the backend:
\* validation, the profile load or insert, the construction of the client.
FailedBeforeStreaming(q) ==
  q.failure \in {"ValidationError", "TypeError", "ProfileError",
                 "UniqueViolation", "ConfigError"}

\* The failures of a chatStream inside its streaming block.
FailedWhileStreaming(q) == q.failure \in {"GenerationError", "PersistenceError"}

\* C39: a chatStream that fails before streaming starts is answered with
\* status 400 or 500 and never has a stream event written; one that fails
\* once streaming has started gets its failure as an error event written to
\* the stream and never a status-coded response; and no chatStream has both
\* a status-coded response and a stream event.
C39_StreamErrorsByPhase ==
  \A r \in DOMAIN req :
    IsStream(r) =>
      /\ FailedBeforeStreaming(req[r]) =>
           /\ req[r].status \in {400, 500}
           /\ req[r].sent = << >> /\ req[r].lateWrites = 0
      /\ FailedWhileStreaming(req[r]) =>
           /\ req[r].status = 0
           /\ \/ /\ req[r].sent # << >>
                 /\ req[r].sent[Len(req[r].sent)] = Event("error", EmptyStr)
              \/ req[r].lateWrites > 0
      /\ req[r].status # 0 => (req[r].sent = << >> /\ req[r].lateWrites = 0)
      /\ req[r].pc \in {"streaming", "committing", "done"} => req[r].status = 0

C39_Witness ==
  \E r \in DOMAIN req :
    /\ IsStream(r) /\ req[r].failure = "GenerationError"
    /\ req[r].status = 0
    /\ Len(req[r].sent) = 2 /\ req[r].sent[1].type = "chunk"
    /\ req[r].sent[2].type = "error"

\* The handler behind authenticateUser runs only for a verified token whose
\* user exists and is approved when next() is called.
HandlerOnlyForApprovedUser ==
  \A r \in AuthSlots :
    /\ req[r].pc # "idle" => auth.requests[r].ranHandler
    /\ auth.requests[r].ranHandler =>
         /\ auth.requests[r].verified
         /\ auth.requests[r].atNext.exists /\ auth.requests[r].atNext.approved
         /\ req[r].user = auth.requests[r].bearer.sub

\* A request that arrives with a valid token after its user's approval was
\* withdrawn, the approval not having changed since, is answered 403 and
\* its handler does not run.
RevokedUserIsRejected ==
  \A r \in AuthSlots :
    LET q == auth.requests[r]
    IN  ( /\ q.pc = "done" /\ q.verified
          /\ q.atStart.exists /\ ~q.atStart.approved
          /\ users[q.bearer.sub] = q.atStart )
          => (q.status = 403 /\ ~q.ranHandler)

\* Such a request never reaches its handler: it is answered 403, or 401
\* when getUserById rejects.
RevokedUserIsRefused ==
  \A r \in AuthSlots :
    LET q == auth.requests[r]
    IN  ( /\ q.pc = "done" /\ q.verified
          /\ q.atStart.exists /\ ~q.atStart.approved
          /\ users[q.bearer.sub] = q.atStart )
          => (q.status \in {401, 403} /\ ~q.ranHandler)

\* login signs a token only for a user who is approved when it is signed.
LoginIssuesOnlyToApprovedUser ==
  \A l \in LoginSlots :
    auth.logins[l].token => auth.logins[l].approvedAtIssue

\* C40: a handler behind authenticateUser runs only for a request whose
\* token verifies and whose user exists and is approved at that time; login
\* never issues a token to an unapproved user; and a request made with a
\* still valid token after the admin set approved = false is answered 403
\* before the handler runs.
C40_OnlyApprovedUsersReachHandlers ==
  /\ HandlerOnlyForApprovedUser
  /\ LoginIssuesOnlyToApprovedUser
  /\ RevokedUserIsRejected
====
